---- MODULE Spec2Model ----
(***************************************************************************)
(* Model of the UtopIA conversation orchestrator (src/llm_agent.py,        *)
(* PlaytomicAgent) together with the pagination loops of the Playtomic     *)
(* gateway it drives (src/playtomic_api.py, PlaytomicAPI).                 *)
(*                                                                         *)
(* One chat call is a sequence of steps: the user message is appended,     *)
(* the model is called, each requested tool invocation is decoded and      *)
(* dispatched, the builder performs its gateway fetches page by page, and  *)
(* the result (or an error payload) is appended to the history.  The       *)
(* language model and the upstream service are the environment: their      *)
(* replies are chosen nondeterministically from small sets.                *)
(*                                                                         *)
(* Further specifications over the same state look at one part each: the   *)
(* builders' gateway fetches (FetchSpec), the token refresh of the gateway *)
(* (TokenSpec), the pagination of get_bookings (PagingSpec), and the pure  *)
(* functions: time conversion (TimeSpec), price parsing (PriceSpec) and    *)
(* the aggregation of the views (ViewSpec; AlertsSpec and RateSpec for the *)
(* operational alerts over longer booking lists).  TzSpec follows the two  *)
(* places the club timezone is kept in.  Each leaves the variables of the  *)
(* other parts as they are.                                                *)
(***************************************************************************)
EXTENDS Integers, Sequences, FiniteSets, TLC

(* ------------------------------ bounds -------------------------------- *)

\* chat calls made in one session
MaxTurns == 2

\* tool invocations the model issues in one session (identifiers 1..MaxToolCalls)
MaxToolCalls == 5

\* tool invocations carried by a single model reply
MaxCallsPerReply == 2

\* the page number sent to /bookings is tracked modulo PageModulus; the
\* loop of get_bookings never branches on it
PageModulus == 2

(* --------------------------- program constants ------------------------ *)

\* variant: the loop allows one iteration more
max_iterations_six == 5 + 1

\* llm_agent.py: max_iterations = 5
max_iterations == 5

\* the message returned after the loop (accents dropped)
FALLBACK == "Disculpa, no pude completar el analisis. Por favor intenta reformular tu pregunta."

\* self.system_prompt, built once by __init__
system_prompt == "Eres UtopIA"

\* keys of the TOOL_EXECUTORS table
TOOL_EXECUTORS ==
    { "get_occupancy_for_date", "get_occupancy_for_range", "get_revenue_summary",
      "get_member_insights", "get_operational_alerts", "get_available_slots",
      "get_booking_details" }

\* args[...] subscripts evaluated by each executor lambda (args.get is optional)
RequiredArgs(fn_name) ==
    IF fn_name \in {"get_occupancy_for_date", "get_available_slots", "get_booking_details"}
    THEN {"date"}
    ELSE {"start_date", "end_date"}

(* ------------------------------ inputs -------------------------------- *)

\* chat never inspects the user message
UserMessages == {"q1"}

\* message.content of a model reply; "None" stands for Python's None
None == "None"
Contents == {None, "texto"}

\* argument strings: a complete JSON object for the tools of a date range, a
\* JSON object lacking the required keys, a complete JSON object for the
\* tools of one date, and a string that is not JSON
ArgsComplete == "{\"start_date\": \"2024-03-01\", \"end_date\": \"2024-03-07\"}"
ArgsMissing == "{}"
ArgsDate == "{\"date\": \"2024-03-01\"}"
ArgsMalformed == "{\"start_date\": "

\* the (name, arguments) pairs the model is taken to request: a tool of the
\* table and one outside it, each with decodable and undecodable arguments
RequestedCalls ==
    { << "get_member_insights", ArgsComplete >>, << "get_member_insights", ArgsMalformed >>,
      << "get_weather", ArgsComplete >>, << "get_weather", ArgsMalformed >> }

\* cursors the upstream /players endpoint hands out
Cursors == {"c1", "c2"}

(* ------------------------------ state --------------------------------- *)

VARIABLES
    messages,       \* self.messages
    pc,             \* position of the chat call; "idle" between calls
    iter,           \* iterations of `for _ in range(max_iterations)` started
    pending,        \* tool calls of the current reply not yet answered
    chart_data,     \* local chart_data of chat
    ret,            \* outcome of the last chat call
    plan,           \* gateway fetches the running builder still has to do
    cursor_id,      \* local cursor_id of get_players
    current_page,   \* local current_page of get_bookings (mod PageModulus)
    turns,          \* chat calls started in the session
    nextId,         \* next tool-call identifier the model will issue
    modelCalls,     \* client.chat.completions.create calls of this chat call
    turnStart,      \* Len(messages) when this chat call began
    dispatched,     \* outcome of each tool invocation completed in this chat call
    lastOp,         \* the operation of the agent that ran last
    \* PlaytomicAPI: the token shared by every caller of one gateway object
    token,            \* self._token; NoToken stands for None
    token_expires_at, \* self._token_expires_at
    now,              \* time.time(), in seconds
    caller,           \* per caller of _headers: position and what its check read
    issued,           \* tokens the authentication endpoint has handed out
    sent,             \* the authenticated request sent last
    \* PlaytomicAPI.get_bookings: one call
    gb_pc,            \* "idle", "loop" (at `while True`), "returned", "raised"
    gb_current_page,  \* local current_page, exact
    all_bookings,     \* local all_bookings
    requested_pages,  \* the "page" parameter of every request made, in order
    responses,        \* resp.json() of every request made, in order
    \* one call of a pure function
    call_args,        \* the arguments
    call_result,      \* what the call returned; fn = "none" before the call
    \* the timezone objects of the process
    module_club_tz,   \* the module global _club_tz of llm_agent
    api_club_tz,      \* self.club_tz of every PlaytomicAPI object, in order of construction
    agent_api         \* self.api of every PlaytomicAgent object: an index of api_club_tz

agentVars == << messages, pc, iter, pending, chart_data, ret, plan, cursor_id,
                current_page, turns, nextId, modelCalls, turnStart, dispatched, lastOp >>

tokenVars == << token, token_expires_at, now, caller, issued, sent >>

pagingVars == << gb_pc, gb_current_page, all_bookings, requested_pages, responses >>

fnVars == << call_args, call_result >>

tzVars == << module_club_tz, api_club_tz, agent_api >>

vars == << agentVars, tokenVars, pagingVars, fnVars, tzVars >>

(* ----------------------------- messages ------------------------------- *)

SystemMsg == [role |-> "system", content |-> system_prompt]

UserMsg(text) == [role |-> "user", content |-> text]

\* message.model_dump(): the role of a completion message is always assistant
AssistantMsg(content, tool_calls) ==
    [role |-> "assistant", content |-> content, tool_calls |-> tool_calls]

ToolMsg(id, content) == [role |-> "tool", tool_call_id |-> id, content |-> content]

\* json.dumps(...): the text of a payload
json_dumps(payload) == ToString(payload)

\* json.loads(arguments): the decoded keys, or a JSONDecodeError
json_loads(arguments) ==
    CASE arguments = ArgsComplete -> [ok |-> TRUE, keys |-> {"start_date", "end_date"}]
      [] arguments = ArgsMissing  -> [ok |-> TRUE, keys |-> {}]
      [] arguments = ArgsDate     -> [ok |-> TRUE, keys |-> {"date"}]
      [] OTHER                    -> [ok |-> FALSE, keys |-> {}]

UnknownToolPayload(fn_name) == [error |-> "Herramienta desconocida: " \o fn_name]

ExceptionPayload(e) == [error |-> e]

\* the view a builder returns
View(fn_name) == [period |-> "2024-03-01 to 2024-03-07", view |-> fn_name]

\* gateway fetches of each builder, in call order; absorbed = inside try/except
Plan(fn_name) ==
    CASE fn_name = "get_member_insights" ->
            << [fetch |-> "players", absorbed |-> TRUE],
               [fetch |-> "bookings", absorbed |-> FALSE] >>
      [] fn_name \in {"get_occupancy_for_range", "get_revenue_summary",
                      "get_operational_alerts", "get_booking_details"} ->
            << [fetch |-> "bookings", absorbed |-> FALSE] >>
      [] fn_name = "get_occupancy_for_date" ->
            << [fetch |-> "bookings", absorbed |-> FALSE],
               [fetch |-> "availability", absorbed |-> TRUE] >>
      [] OTHER ->
            << [fetch |-> "availability", absorbed |-> FALSE] >>

\* what a chat call hands back: kind is "answer" (final text), "gave_up"
\* (fallback message), "raised" (an exception left chat) or "none" (running)
NoReturn == [kind |-> "none", text |-> "", chart_data |-> << >>]

Returned(kind, text, cd) == [kind |-> kind, text |-> text, chart_data |-> cd]

(* ------------------------------- Init --------------------------------- *)

\* PlaytomicAgent.__init__
AgentInit ==
    /\ messages = << SystemMsg >>
    /\ pc = "idle"
    /\ iter = 0
    /\ pending = << >>
    /\ chart_data = << >>
    /\ ret = NoReturn
    /\ plan = << >>
    /\ cursor_id = None
    /\ current_page = 0
    /\ turns = 0
    /\ nextId = 1
    /\ modelCalls = 0
    /\ turnStart = 1
    /\ dispatched = << >>
    /\ lastOp = "init"

\* self._token = None
NoToken == 0

\* PlaytomicAPI.__init__, with nobody calling the gateway
TokenIdle ==
    /\ token = NoToken
    /\ token_expires_at = 0
    /\ now = 0
    /\ caller = << >>
    /\ issued = 0
    /\ sent = << >>

\* no call of get_bookings under way
PagingIdle ==
    /\ gb_pc = "idle"
    /\ gb_current_page = 0
    /\ all_bookings = << >>
    /\ requested_pages = << >>
    /\ responses = << >>

NoResult == [fn |-> "none"]

\* no call of a pure function under way
FnIdle ==
    /\ call_args = << >>
    /\ call_result = NoResult

\* llm_agent imported, no object constructed; timezones are kept by name
TzIdle ==
    /\ module_club_tz = "America/Cancun"
    /\ api_club_tz = << >>
    /\ agent_api = << >>

Init == AgentInit /\ TokenIdle /\ PagingIdle /\ FnIdle /\ TzIdle

(* ------------------------- PlaytomicAgent ----------------------------- *)

\* variant: reset clears the list altogether
ResetHistoryEmpty == << >>

\* variant: reset leaves the list as it is
ResetHistoryKeepsTurns == messages

\* reset_conversation: self.messages = [system message]
ResetHistory == << SystemMsg >>

\* variant: the reply's text is dropped
ReturnTextBlank(content) == ""

\* `message.content or ""`
ReturnText(content) == IF content = None THEN "" ELSE content

\* variant: the error payload is recorded for the charts as well
ChartOnErrorAppends(cd, fn_name, payload) == Append(cd, << fn_name, payload >>)

\* the except branch and the unknown-tool branch leave chart_data alone
ChartOnError(cd, fn_name, payload) == cd

\* chart_data.append((fn_name, result))
ChartOnSuccess(cd, fn_name, result) == Append(cd, << fn_name, result >>)

\* position of the builder for the fetch it performs next
FetchPc(step) ==
    CASE step.fetch = "players"  -> "get_players"
      [] step.fetch = "bookings" -> "get_bookings"
      [] OTHER                   -> "get_availability"

\* variant: the message takes the place of the last one
AppendedOverLast(history, message) == Append(SubSeq(history, 1, Len(history) - 1), message)

\* self.messages.append(message)
Appended(history, message) == Append(history, message)

\* an exception leaves chat: locals are gone, the history stays as it is
Raise(e) ==
    /\ pc' = "idle"
    /\ ret' = Returned("raised", e, << >>)
    /\ iter' = 0
    /\ pending' = << >>
    /\ chart_data' = << >>
    /\ plan' = << >>
    /\ cursor_id' = None
    /\ current_page' = 0
    /\ UNCHANGED << messages, turns, nextId, turnStart, dispatched, lastOp >>

\* self.messages.append({"role": "tool", ...}) for the invocation at the head
\* of the reply's tool calls, then on to the next invocation or model call
Answer(result_str, cd, outcome) ==
    LET tool_call == Head(pending) IN
    /\ messages' = Appended(messages, ToolMsg(tool_call.id, result_str))
    /\ chart_data' = cd
    /\ dispatched' = Append(dispatched,
                            [id |-> tool_call.id, name |-> tool_call.name,
                             outcome |-> outcome])
    /\ pending' = Tail(pending)
    /\ pc' = IF Tail(pending) = << >> THEN "call_model" ELSE "dispatch"
    /\ plan' = << >>
    /\ UNCHANGED << ret, cursor_id, current_page, turns, nextId, turnStart, lastOp >>

\* the executor raised: except Exception as e -> {"error": str(e)}
BuilderRaised(e) ==
    LET payload == ExceptionPayload(e) IN
    Answer(json_dumps(payload),
           ChartOnError(chart_data, Head(pending).name, payload), "raised")

\* chat(user_message), up to the first model call
Chat(user_message) ==
    /\ pc = "idle"
    /\ turns < MaxTurns
    /\ messages' = Appended(messages, UserMsg(user_message))
    /\ chart_data' = << >>
    /\ iter' = 0
    /\ pc' = "call_model"
    /\ ret' = NoReturn
    /\ pending' = << >>
    /\ turns' = turns + 1
    /\ modelCalls' = 0
    /\ turnStart' = Len(messages)
    /\ dispatched' = << >>
    /\ lastOp' = "chat"
    /\ UNCHANGED << plan, cursor_id, current_page, nextId >>
    /\ UNCHANGED << tokenVars, pagingVars, fnVars, tzVars >>

reset_conversation ==
    /\ pc = "idle"
    /\ messages' = ResetHistory
    /\ lastOp' = "reset"
    \* the record of the last chat call describes a history that is gone
    /\ modelCalls' = 0
    /\ turnStart' = 1
    /\ dispatched' = << >>
    /\ ret' = NoReturn
    /\ UNCHANGED << pc, iter, pending, chart_data, plan, cursor_id,
                    current_page, turns, nextId >>
    /\ UNCHANGED << tokenVars, pagingVars, fnVars, tzVars >>

\* tool calls a reply can carry: identifiers never issued before (as the
\* completion service assigns them), requested name and arguments
ToolCallLists ==
    UNION { { [i \in 1..n |-> [id |-> nextId + i - 1, name |-> calls[i][1],
                               arguments |-> calls[i][2]]] :
                calls \in [1..n -> RequestedCalls] } :
            n \in 0..MaxCallsPerReply }

\* one iteration of the loop: client.chat.completions.create, append the
\* reply, return if it carries no tool calls
ModelReply ==
    /\ pc = "call_model"
    /\ iter < max_iterations
    /\ modelCalls' = modelCalls + 1
    /\ \/ Raise("APIError")
       \/ \E content \in Contents, tool_calls \in ToolCallLists :
            /\ nextId + Len(tool_calls) - 1 <= MaxToolCalls
            \* a reply that requests tools carries no text
            /\ tool_calls # << >> => content = None
            /\ nextId' = nextId + Len(tool_calls)
            /\ messages' = Appended(messages, AssistantMsg(content, tool_calls))
            /\ IF tool_calls = << >>
               THEN /\ pc' = "idle"
                    /\ ret' = Returned("answer", ReturnText(content), chart_data)
                    /\ iter' = 0
                    /\ chart_data' = << >>
                    /\ pending' = << >>
               ELSE /\ pc' = "dispatch"
                    /\ ret' = ret
                    /\ iter' = iter + 1
                    /\ chart_data' = chart_data
                    /\ pending' = tool_calls
            /\ UNCHANGED << plan, cursor_id, current_page, turns,
                            turnStart, dispatched, lastOp >>
    /\ UNCHANGED << tokenVars, pagingVars, fnVars, tzVars >>

\* the loop ran out of iterations: the fixed fallback message
GiveUp ==
    /\ pc = "call_model"
    /\ iter >= max_iterations
    /\ pc' = "idle"
    /\ ret' = Returned("gave_up", FALLBACK, chart_data)
    /\ iter' = 0
    /\ chart_data' = << >>
    /\ UNCHANGED << messages, pending, plan, cursor_id, current_page, turns,
                    nextId, modelCalls, turnStart, dispatched, lastOp >>
    /\ UNCHANGED << tokenVars, pagingVars, fnVars, tzVars >>

\* head of `for tool_call in message.tool_calls`: decode the arguments, look
\* the executor up, evaluate the lambda's args[...] and enter the builder
Dispatch ==
    /\ pc = "dispatch"
    /\ LET tool_call == Head(pending)
           fn_name == tool_call.name
           fn_args == json_loads(tool_call.arguments)
       IN  IF ~fn_args.ok
           THEN Raise("JSONDecodeError")
           ELSE /\ iter' = iter
                /\ IF fn_name \notin TOOL_EXECUTORS
                   THEN LET payload == UnknownToolPayload(fn_name) IN
                        Answer(json_dumps(payload),
                               ChartOnError(chart_data, fn_name, payload), "unknown")
                   ELSE IF ~(RequiredArgs(fn_name) \subseteq fn_args.keys)
                   THEN BuilderRaised("KeyError")
                   ELSE /\ plan' = Plan(fn_name)
                        /\ pc' = FetchPc(Head(Plan(fn_name)))
                        /\ cursor_id' = None
                        /\ current_page' = 0
                        /\ UNCHANGED << messages, pending, chart_data, ret, turns,
                                        nextId, turnStart, dispatched, lastOp >>
    /\ UNCHANGED modelCalls
    /\ UNCHANGED << tokenVars, pagingVars, fnVars, tzVars >>

(* --------------------------- PlaytomicAPI ----------------------------- *)

\* the fetch at the head of the plan is over: on to the builder's next fetch,
\* or to its aggregation when none is left
FetchDone ==
    /\ plan' = Tail(plan)
    /\ pc' = IF Tail(plan) = << >> THEN "builder_return" ELSE FetchPc(Head(Tail(plan)))
    /\ cursor_id' = None
    /\ current_page' = 0
    /\ UNCHANGED << messages, pending, chart_data, ret, turns, nextId,
                    turnStart, dispatched, lastOp >>

\* a request of the fetch raised (token request, HTTP status, timeout): a
\* fetch inside try/except yields empty data, any other leaves the builder
FetchFailed ==
    IF Head(plan).absorbed THEN FetchDone ELSE BuilderRaised("HTTPError")

\* one pass of `while True` in get_players
GetPlayersPage ==
    /\ pc = "get_players"
    /\ \/ FetchFailed
       \/ \E has_more \in BOOLEAN, next_cursor_id \in Cursors \cup {None} :
            IF ~has_more \/ next_cursor_id = None
            THEN FetchDone
            ELSE /\ cursor_id' = next_cursor_id
                 /\ UNCHANGED << messages, pc, pending, chart_data, ret, plan,
                                 current_page, turns, nextId, turnStart, dispatched, lastOp >>
    /\ UNCHANGED << iter, modelCalls >>
    /\ UNCHANGED << tokenVars, pagingVars, fnVars, tzVars >>

\* one pass of `while True` in get_bookings: an empty or short page ends the
\* loop, a full page moves to the next page
GetBookingsPage ==
    /\ pc = "get_bookings"
    /\ \/ FetchFailed
       \/ \E page \in {"empty", "short", "full"} :
            IF page \in {"empty", "short"}
            THEN FetchDone
            ELSE /\ current_page' = (current_page + 1) % PageModulus
                 /\ UNCHANGED << messages, pc, pending, chart_data, ret, plan,
                                 cursor_id, turns, nextId, turnStart, dispatched, lastOp >>
    /\ UNCHANGED << iter, modelCalls >>
    /\ UNCHANGED << tokenVars, pagingVars, fnVars, tzVars >>

\* the builder aggregates and returns; chat serialises the view, records it
\* for the charts and appends the tool message
BuilderReturn ==
    /\ pc = "builder_return"
    /\ LET fn_name == Head(pending).name
           result == View(fn_name)
       IN  Answer(json_dumps(result), ChartOnSuccess(chart_data, fn_name, result), "ok")
    /\ UNCHANGED << iter, modelCalls >>
    /\ UNCHANGED << tokenVars, pagingVars, fnVars, tzVars >>

ChatStep == ModelReply \/ GiveUp \/ Dispatch \/ GetPlayersPage \/ GetBookingsPage \/ BuilderReturn

Next ==
    \/ \E user_message \in UserMessages : Chat(user_message)
    \/ reset_conversation
    \/ ModelReply
    \/ GiveUp
    \/ Dispatch
    \/ GetPlayersPage
    \/ GetBookingsPage
    \/ BuilderReturn

Spec == Init /\ [][Next]_vars

\* a running chat call keeps executing: the program is sequential and each
\* of its steps is a finite computation or a request with a timeout
FairSpec == Spec /\ WF_vars(ChatStep)

TypeOK ==
    /\ pc \in {"idle", "call_model", "dispatch", "get_players", "get_bookings", "builder_return"}
    /\ iter \in 0..max_iterations
    /\ Len(pending) <= MaxCallsPerReply

(* ------------------- the builders' gateway fetches -------------------- *)

\* get_availability: a single request, no pagination
GetAvailability ==
    /\ pc = "get_availability"
    /\ \/ FetchFailed
       \/ FetchDone
    /\ UNCHANGED << iter, modelCalls >>
    /\ UNCHANGED << tokenVars, pagingVars, fnVars, tzVars >>

\* the argument string the model sends when it fills in a tool's parameters
CompleteArgs(fn_name) ==
    IF RequiredArgs(fn_name) = {"date"} THEN ArgsDate ELSE ArgsComplete

\* tool calls of one reply that name tools of the table, with complete
\* arguments and the identifiers 1, 2, ...
TableCallLists ==
    UNION { { [i \in 1..n |-> [id |-> i, name |-> names[i],
                               arguments |-> CompleteArgs(names[i])]] :
                names \in [1..n -> TOOL_EXECUTORS] } :
            n \in 1..MaxCallsPerReply }

\* a first chat call at the head of `for tool_call in message.tool_calls`,
\* its first reply having requested tools of the table
FetchInit ==
    /\ \E tool_calls \in TableCallLists :
         /\ messages = << SystemMsg, UserMsg("q1"), AssistantMsg(None, tool_calls) >>
         /\ pending = tool_calls
         /\ nextId = Len(tool_calls) + 1
    /\ pc = "dispatch"
    /\ iter = 1
    /\ chart_data = << >>
    /\ ret = NoReturn
    /\ plan = << >>
    /\ cursor_id = None
    /\ current_page = 0
    /\ turns = 1
    /\ modelCalls = 1
    /\ turnStart = 1
    /\ dispatched = << >>
    /\ lastOp = "chat"
    /\ TokenIdle /\ PagingIdle /\ FnIdle /\ TzIdle

\* the steps from the dispatch of an invocation to its tool result
FetchNext ==
    \/ Dispatch
    \/ GetPlayersPage
    \/ GetBookingsPage
    \/ GetAvailability
    \/ BuilderReturn

FetchSpec == FetchInit /\ [][FetchNext]_vars

(* ------------------------- the gateway's token ------------------------ *)

\* the clock runs up to MaxNow seconds
MaxNow == 80

\* tokens the authentication endpoint hands out in one run
MaxTokens == 3

\* callers of _headers on one gateway object; nothing in PlaytomicAPI keeps
\* a second caller out while a first one is inside _ensure_token
Callers == {"a", "b"}

\* seconds that pass between two steps
Delays == {20}

\* data.get("expires_in", 3600): the default for a response without the key
DefaultExpiresIn == 3600

\* "expires_in" of a token response
ExpiresIn == {120, DefaultExpiresIn}

\* variant: a token is reused up to its recorded expiry
TokenUsableNoMargin(tok, expires_at, t) == tok # NoToken /\ t < expires_at

\* `self._token and time.time() < self._token_expires_at - 60`
TokenUsable(tok, expires_at, t) == tok # NoToken /\ t < expires_at - 60

\* a caller outside _headers
IdleCaller ==
    [pc |-> "idle", checked_token |-> NoToken, checked_left |-> 0,
     issued_before |-> 0, expires_in |-> 0]

\* no authenticated request sent yet
NoRequest ==
    [made |-> FALSE, token |-> NoToken, checked_token |-> NoToken,
     checked_left |-> 0, issued_before |-> 0]

\* a gateway object fresh from __init__; the clock counts from its creation
TokenInit ==
    /\ token = NoToken
    /\ token_expires_at = 0
    /\ now = 0
    /\ caller = [c \in Callers |-> IdleCaller]
    /\ issued = 0
    /\ sent = NoRequest
    /\ AgentInit /\ PagingIdle /\ FnIdle /\ TzIdle

\* _headers calls _ensure_token, which evaluates its condition: return at
\* once, or send the token request.  The caller keeps what the condition
\* read: the token, the seconds left to its recorded expiry, and the number
\* of tokens handed out so far
EnsureToken(c) ==
    /\ caller[c].pc = "idle"
    /\ caller' = [caller EXCEPT ![c] =
                    [pc |-> IF TokenUsable(token, token_expires_at, now)
                            THEN "headers" ELSE "post",
                     checked_token |-> token,
                     checked_left |-> token_expires_at - now,
                     issued_before |-> issued,
                     expires_in |-> 0]]
    /\ UNCHANGED << token, token_expires_at, now, issued, sent >>
    /\ UNCHANGED << agentVars, pagingVars, fnVars, tzVars >>

\* the token request ends: it raises (timeout, raise_for_status, no "token"
\* key), or self._token = data["token"]
TokenResponse(c) ==
    /\ caller[c].pc = "post"
    /\ \/ /\ caller' = [caller EXCEPT ![c] = IdleCaller]
          /\ UNCHANGED << token, issued >>
       \/ \E expires_in \in ExpiresIn :
            /\ issued < MaxTokens
            /\ issued' = issued + 1
            /\ token' = issued + 1
            /\ caller' = [caller EXCEPT ![c].pc = "store_expiry",
                                        ![c].expires_in = expires_in]
    /\ UNCHANGED << token_expires_at, now, sent >>
    /\ UNCHANGED << agentVars, pagingVars, fnVars, tzVars >>

\* self._token_expires_at = time.time() + data.get("expires_in", 3600)
StoreExpiry(c) ==
    /\ caller[c].pc = "store_expiry"
    /\ token_expires_at' = now + caller[c].expires_in
    /\ caller' = [caller EXCEPT ![c].pc = "headers"]
    /\ UNCHANGED << token, now, issued, sent >>
    /\ UNCHANGED << agentVars, pagingVars, fnVars, tzVars >>

\* return {"Authorization": f"Bearer {self._token}"}: the request goes out
\* with the token the attribute holds now
Headers(c) ==
    /\ caller[c].pc = "headers"
    /\ sent' = [made |-> TRUE, token |-> token,
                checked_token |-> caller[c].checked_token,
                checked_left |-> caller[c].checked_left,
                issued_before |-> caller[c].issued_before]
    /\ caller' = [caller EXCEPT ![c] = IdleCaller]
    /\ UNCHANGED << token, token_expires_at, now, issued >>
    /\ UNCHANGED << agentVars, pagingVars, fnVars, tzVars >>

\* time passes
Tick ==
    /\ \E d \in Delays :
         /\ now + d <= MaxNow
         /\ now' = now + d
    /\ UNCHANGED << token, token_expires_at, caller, issued, sent >>
    /\ UNCHANGED << agentVars, pagingVars, fnVars, tzVars >>

TokenNext ==
    \/ \E c \in Callers : EnsureToken(c)
    \/ \E c \in Callers : TokenResponse(c)
    \/ \E c \in Callers : StoreExpiry(c)
    \/ \E c \in Callers : Headers(c)
    \/ Tick

TokenSpec == TokenInit /\ [][TokenNext]_vars

\* callers whose token request is at the authentication endpoint
InFlight == { c \in Callers : caller[c].pc = "post" }

(* ------------------- the pagination of get_bookings ------------------- *)

\* records on a full page; get_bookings compares len(bookings) with its
\* parameter size (200 by default) and never looks at a record
PageSize == 2

\* requests one call of get_bookings makes
MaxPages == 4

\* the records the upstream service returns
BookingIds == {"b1", "b2"}

\* parameter page of get_bookings; no caller passes another value
page == 0

\* parameter size of get_bookings
size == PageSize

\* resp.json(): any list of at most size records
Pages == UNION { [1..n -> BookingIds] : n \in 0..size }

\* variant: every other page is skipped
NextPageSkipsOne(p) == p + 2

\* current_page += 1
NextPage(p) == p + 1

\* a call of get_bookings at its first `while True`
PagingInit ==
    /\ gb_pc = "loop"
    /\ gb_current_page = page
    /\ all_bookings = << >>
    /\ requested_pages = << >>
    /\ responses = << >>
    /\ AgentInit /\ TokenIdle /\ FnIdle /\ TzIdle

\* one pass of `while True`: the request for current_page, then the two
\* breaks, extend and the increment
GetBookingsPass ==
    /\ gb_pc = "loop"
    /\ \E bookings \in Pages :
         \* the upstream service runs out of records within MaxPages pages
         /\ Len(requested_pages) + 1 = MaxPages => Len(bookings) < size
         /\ requested_pages' = Append(requested_pages, gb_current_page)
         /\ responses' = Append(responses, bookings)
         /\ IF bookings = << >>
            THEN /\ gb_pc' = "returned"
                 /\ UNCHANGED << all_bookings, gb_current_page >>
            ELSE /\ all_bookings' = all_bookings \o bookings
                 /\ IF Len(bookings) < size
                    THEN /\ gb_pc' = "returned"
                         /\ UNCHANGED gb_current_page
                    ELSE /\ gb_pc' = "loop"
                         /\ gb_current_page' = NextPage(gb_current_page)
    /\ UNCHANGED << agentVars, tokenVars, fnVars, tzVars >>

\* the request of a pass raises (token, raise_for_status, timeout): the call
\* returns nothing
GetBookingsRaise ==
    /\ gb_pc = "loop"
    /\ Len(requested_pages) < MaxPages
    /\ requested_pages' = Append(requested_pages, gb_current_page)
    /\ gb_pc' = "raised"
    /\ all_bookings' = << >>
    /\ UNCHANGED << gb_current_page, responses >>
    /\ UNCHANGED << agentVars, tokenVars, fnVars, tzVars >>

PagingNext == GetBookingsPass \/ GetBookingsRaise

PagingSpec == PagingInit /\ [][PagingNext]_vars

RECURSIVE Concat(_)
\* the records of a list of lists, in order
Concat(pages) == IF pages = << >> THEN << >> ELSE Head(pages) \o Concat(Tail(pages))

(* --------------------------- time conversion -------------------------- *)

\* days of the calendar the timestamps are drawn from; day 1 is 2024-03-01,
\* and a naive datetime is its number of seconds since day 0, 00:00:00
MaxDay == 5

SecondsPerDay == 24 * 60 * 60

Hours(h) == h * 60 * 60

\* ZoneInfo objects: the standard offset from UTC, the amount added while
\* daylight saving time is in effect, and the UTC instants between which it
\* is.  The calendar is short, so summer lasts from day 2 to day 4: the
\* clocks go forward in the night of day 2 and back in the night of day 4.
Zones ==
    { [name |-> "UTC", std |-> 0, dst |-> 0, dst_begin |-> 0, dst_end |-> 0],
      [name |-> "America/Cancun", std |-> 0 - Hours(5), dst |-> 0,
       dst_begin |-> 0, dst_end |-> 0],
      [name |-> "Europe/Madrid", std |-> Hours(1), dst |-> Hours(1),
       dst_begin |-> 2 * SecondsPerDay + Hours(1),
       dst_end |-> 4 * SecondsPerDay + Hours(1)],
      [name |-> "America/New_York", std |-> 0 - Hours(5), dst |-> Hours(1),
       dst_begin |-> 2 * SecondsPerDay + Hours(7),
       dst_end |-> 4 * SecondsPerDay + Hours(6)] }

\* _club_tz: ZoneInfo = ZoneInfo("America/Cancun")
_club_tz == CHOOSE tz \in Zones : tz.name = "America/Cancun"

\* tz.utcoffset of the UTC instant u
utcoffset(tz, u) ==
    tz.std + (IF tz.dst_begin <= u /\ u < tz.dst_end THEN tz.dst ELSE 0)

\* variant: fixed-offset arithmetic
wall_utcoffset_fixed(tz, w) == tz.std

\* tz.utcoffset of the wall time w (fold = 0, as replace(tzinfo=...) leaves
\* it): a wall time the clocks skip or show twice takes the offset in effect
\* before the change
wall_utcoffset(tz, w) ==
    IF tz.dst_begin + tz.std + tz.dst <= w /\ w < tz.dst_end + tz.std + tz.dst
    THEN tz.std + tz.dst
    ELSE tz.std

\* timestamp strings: "YYYY-MM-DDTHH:MM:SS" followed by tail, "YYYY-MM-DD",
\* the empty string, and strings with a "T" that strptime rejects
DateTimeStr(day, sec, tail) == [kind |-> "datetime", day |-> day, sec |-> sec, tail |-> tail]

DateStr(day) == [kind |-> "date", day |-> day, sec |-> 0, tail |-> ""]

EmptyStr == [kind |-> "empty", day |-> 0, sec |-> 0, tail |-> ""]

\* "YYYY-MM-DDT25:00:00" for day >= 1 (a date followed by no time of day),
\* "T" for day = 0
MalformedStr(day) == [kind |-> "malformed", day |-> day, sec |-> 0, tail |-> ""]

\* datetime.strptime(utc_str[:19], "%Y-%m-%dT%H:%M:%S"): the slice drops the tail
strptime(utc_str) == utc_str.day * SecondsPerDay + utc_str.sec

\* dt.strftime("%Y-%m-%dT%H:%M:%S")
strftime_iso(dt) == DateTimeStr(dt \div SecondsPerDay, dt % SecondsPerDay, "")

\* dt.strftime("%Y-%m-%d")
strftime_date(dt) == DateStr(dt \div SecondsPerDay)

\* the None of _utc_to_local_dt
NoDt == [ok |-> FALSE, local |-> 0]

\* variant: the timestamp is taken as local time already
_utc_to_local_dt_unshifted(utc_str, tz) ==
    IF utc_str.kind # "datetime" THEN NoDt ELSE [ok |-> TRUE, local |-> strptime(utc_str)]

\* _utc_to_local_dt under the club timezone tz: None for an empty string,
\* one without "T" and one strptime raises ValueError on, else the wall time
\* in tz of the UTC instant parsed
_utc_to_local_dt(utc_str, tz) ==
    IF utc_str.kind # "datetime"
    THEN NoDt
    ELSE LET dt_utc == strptime(utc_str)
         IN  [ok |-> TRUE, local |-> dt_utc + utcoffset(tz, dt_utc)]

_utc_to_local(utc_str, tz) ==
    LET dt == _utc_to_local_dt(utc_str, tz)
    IN  IF dt.ok THEN strftime_iso(dt.local) ELSE utc_str

\* utc_str[:10] of a string that is not of kind datetime
Prefix10(utc_str) ==
    IF utc_str.kind = "malformed" /\ utc_str.day >= 1 THEN DateStr(utc_str.day) ELSE utc_str

_utc_to_local_date(utc_str, tz) ==
    LET dt == _utc_to_local_dt(utc_str, tz)
    IN  IF dt.ok THEN strftime_date(dt.local)
        ELSE IF utc_str.kind # "empty" THEN Prefix10(utc_str) ELSE EmptyStr

_utc_to_local_hour(utc_str, tz) ==
    LET dt == _utc_to_local_dt(utc_str, tz)
    IN  IF dt.ok THEN (dt.local % SecondsPerDay) \div Hours(1) ELSE 0

\* PlaytomicAPI._local_day_to_utc_range under self.club_tz = tz; local_date
\* is a naive datetime, whose time of day replace() overwrites
_local_day_to_utc_range(local_date, tz) ==
    LET local_start == (local_date \div SecondsPerDay) * SecondsPerDay
        local_end == local_start + Hours(23) + 59 * 60 + 59
    IN  [utc_start |-> local_start - wall_utcoffset(tz, local_start),
         utc_end |-> local_end - wall_utcoffset(tz, local_end)]

\* times of day of the timestamps
TimesOfDay == {0, Hours(1) + 30 * 60, Hours(7), SecondsPerDay - 1}

\* booking_start_date values
UtcStrings ==
    { DateTimeStr(day, sec, tail) : day \in 1..MaxDay, sec \in TimesOfDay, tail \in {"", "Z"} }
        \cup { DateStr(1), EmptyStr, MalformedStr(0), MalformedStr(1) }

\* datetimes handed to _local_day_to_utc_range: strptime(date_str, "%Y-%m-%d"),
\* and what the range builders make of it with replace(hour=23, ...)
LocalDates ==
    { day * SecondsPerDay + sec : day \in 1..MaxDay, sec \in {0, SecondsPerDay - 1} }

\* one call of a time function, on any timestamp, day and club timezone
TimeInit ==
    /\ call_args \in [utc_str : UtcStrings, local_date : LocalDates, tz : Zones]
    /\ call_result = NoResult
    /\ AgentInit /\ TokenIdle /\ PagingIdle /\ TzIdle

UtcToLocal ==
    /\ call_result.fn = "none"
    /\ call_result' = [fn |-> "_utc_to_local",
                       value |-> _utc_to_local(call_args.utc_str, call_args.tz)]
    /\ UNCHANGED << call_args, agentVars, tokenVars, pagingVars, tzVars >>

UtcToLocalDate ==
    /\ call_result.fn = "none"
    /\ call_result' = [fn |-> "_utc_to_local_date",
                       value |-> _utc_to_local_date(call_args.utc_str, call_args.tz)]
    /\ UNCHANGED << call_args, agentVars, tokenVars, pagingVars, tzVars >>

\* _utc_to_local_date(_utc_to_local(utc_str))
UtcToLocalDateOfLocal ==
    /\ call_result.fn = "none"
    /\ call_result' = [fn |-> "_utc_to_local_date of _utc_to_local",
                       value |-> _utc_to_local_date(
                                    _utc_to_local(call_args.utc_str, call_args.tz),
                                    call_args.tz)]
    /\ UNCHANGED << call_args, agentVars, tokenVars, pagingVars, tzVars >>

LocalDayToUtcRange ==
    /\ call_result.fn = "none"
    /\ call_result' = [fn |-> "_local_day_to_utc_range",
                       value |-> _local_day_to_utc_range(call_args.local_date, call_args.tz)]
    /\ UNCHANGED << call_args, agentVars, tokenVars, pagingVars, tzVars >>

TimeNext == UtcToLocal \/ UtcToLocalDate \/ UtcToLocalDateOfLocal \/ LocalDayToUtcRange

TimeSpec == TimeInit /\ [][TimeNext]_vars

\* the calendar date in zone tz of the UTC instant a timestamp names
LocalDateOf(utc_str, tz) ==
    DateStr((strptime(utc_str) + utcoffset(tz, strptime(utc_str))) \div SecondsPerDay)

\* the UTC instant at which local day `day` begins in tz: the instant whose
\* wall time in tz is 00:00:00 of that day
MidnightUtc(day, tz) ==
    CHOOSE u \in { day * SecondsPerDay - tz.std, day * SecondsPerDay - tz.std - tz.dst } :
        u + utcoffset(tz, u) = day * SecondsPerDay

\* seconds local day `day` lasts in tz
DayDuration(day, tz) == MidnightUtc(day + 1, tz) - MidnightUtc(day, tz)

(* ----------------------- auxiliary definitions ------------------------ *)

Indices == 1..Len(messages)

\* positions of the messages appended by the chat call that ran last
TurnIndices == { i \in Indices : i > turnStart }

ErrorPayloads ==
    { UnknownToolPayload(c[1]) : c \in RequestedCalls }
        \cup { ExceptionPayload(e) : e \in {"KeyError", "HTTPError"} }

IsErrorText(content) == \E p \in ErrorPayloads : content = json_dumps(p)

\* tool-result messages in the history that carry identifier id
ResultsFor(id) == { j \in Indices : messages[j].role = "tool" /\ messages[j].tool_call_id = id }

\* identifiers of the invocations requested by the replies at positions I
InvocationIds(I) ==
    UNION { { messages[i].tool_calls[k].id : k \in 1..Len(messages[i].tool_calls) } :
            i \in { j \in I : messages[j].role = "assistant" } }

Range(seq) == { seq[i] : i \in 1..Len(seq) }

\* the step answers the invocation at the head of the reply's tool calls with
\* an error payload and goes on with the loop
AnsweredWithError ==
    /\ Len(messages') = Len(messages) + 1
    /\ SubSeq(messages', 1, Len(messages)) = messages
    /\ messages'[Len(messages')].role = "tool"
    /\ messages'[Len(messages')].tool_call_id = Head(pending).id
    /\ IsErrorText(messages'[Len(messages')].content)
    /\ pc' \in {"dispatch", "call_model"}

(* ---------------------------- price parsing --------------------------- *)

\* characters of a price string drawn at random
MaxPriceLen == 4

\* a string is the sequence of its characters
PriceChars == {"1", "5", ".", " ", "U"}

DigitValue ==
    ("0" :> 0) @@ ("1" :> 1) @@ ("2" :> 2) @@ ("3" :> 3) @@ ("4" :> 4) @@
    ("5" :> 5) @@ ("6" :> 6) @@ ("7" :> 7) @@ ("8" :> 8) @@ ("9" :> 9)

IsDigit(ch) == ch \in DOMAIN DigitValue

RECURSIVE Pow10(_)
Pow10(n) == IF n = 0 THEN 1 ELSE 10 * Pow10(n - 1)

\* a float is kept as the integer number of units of 10^-(MaxPriceLen - 1),
\* which is exact for every numeral of the model (a numeral of MaxPriceLen
\* characters has at most MaxPriceLen - 1 decimals); the binary rounding of
\* float is far below the half cent at which round(x, 2) decides
PriceUnit == Pow10(MaxPriceLen - 1)

\* characters of s before its first whitespace
TokenLen(s) ==
    IF \E i \in 1..Len(s) : s[i] = " "
    THEN (CHOOSE i \in 1..Len(s) : s[i] = " " /\ \A j \in 1..(i - 1) : s[j] # " ") - 1
    ELSE Len(s)

RECURSIVE split(_)
\* str.split(): the maximal runs of characters other than whitespace
split(s) ==
    IF s = << >> THEN << >>
    ELSE IF Head(s) = " " THEN split(Tail(s))
    ELSE << SubSeq(s, 1, TokenLen(s)) >> \o split(SubSeq(s, TokenLen(s) + 1, Len(s)))

RECURSIVE NatOf(_)
\* the number a run of digits denotes
NatOf(digits) ==
    IF digits = << >> THEN 0
    ELSE NatOf(SubSeq(digits, 1, Len(digits) - 1)) * 10 + DigitValue[digits[Len(digits)]]

Returns(value) == [exc |-> "none", value |-> value]

Raises(exc) == [exc |-> exc, value |-> 0]

\* float(text) for a text of digits, "." and other characters without
\* sign, exponent, underscore or the letters of inf and nan: digits with at
\* most one ".", at least one digit; anything else is a ValueError
float(text) ==
    LET dots == { i \in 1..Len(text) : text[i] = "." }
        dot == IF dots = {} THEN Len(text) + 1 ELSE CHOOSE i \in dots : TRUE
        whole == SubSeq(text, 1, dot - 1)
        fraction == SubSeq(text, dot + 1, Len(text))
    IN  IF /\ \A i \in 1..Len(text) : IsDigit(text[i]) \/ text[i] = "."
           /\ Cardinality(dots) <= 1
           /\ \E i \in 1..Len(text) : IsDigit(text[i])
        THEN Returns(NatOf(whole) * PriceUnit
                        + NatOf(fraction) * Pow10(MaxPriceLen - 1 - Len(fraction)))
        ELSE Raises("ValueError")

\* variant: an empty token list goes uncaught
CaughtOnlyValueError == {"ValueError"}

\* except (ValueError, IndexError)
CaughtByParsePrice == {"ValueError", "IndexError"}

\* _parse_price: what it returns, or the exception that leaves it
_parse_price(price_str) ==
    IF price_str = << >>
    THEN Returns(0)
    ELSE LET tokens == split(price_str)
             attempt == IF tokens = << >> THEN Raises("IndexError") ELSE float(tokens[1])
         IN  IF attempt.exc \in CaughtByParsePrice THEN Returns(0) ELSE attempt

\* round(x, 1) and round(x, 2) of the quotient n / d, in units of the last
\* digit kept: to nearest, a tie to the even neighbour
RoundHalfEven(n, d) ==
    LET q == n \div d
        r == n % d
    IN  IF 2 * r < d THEN q
        ELSE IF 2 * r > d THEN q + 1
        ELSE IF q % 2 = 0 THEN q ELSE q + 1

\* round(x, 2) of an amount, in cents
round2(amount) == RoundHalfEven(amount, PriceUnit \div 100)

\* the price strings of the bookings
Str_10_EUR == << "1", "0", " ", "E", "U", "R" >>
Str_2_5_EUR == << "2", ".", "5", " ", "E", "U", "R" >>
Str_0_004_EUR == << "0", ".", "0", "0", "4", " ", "E", "U", "R" >>

\* price strings handed to _parse_price
PriceStrings ==
    UNION { [1..n -> PriceChars] : n \in 0..MaxPriceLen }
        \cup { Str_10_EUR, Str_2_5_EUR, Str_0_004_EUR }

(* ------------------------------ the views ----------------------------- *)

\* bookings of one fetch, availability entries of one response
MaxBookings == 3
MaxResources == 2

Participant(participant_id, name) == [participant_id |-> participant_id, name |-> name]

\* a booking as the API returns it; day 1 is 2024-03-01, a Friday
Booking(is_canceled, resource_name, price, payment_status, booking_type, booking_start_date, participants) ==
    [is_canceled |-> is_canceled, resource_name |-> resource_name, price |-> price,
     payment_status |-> payment_status, booking_type |-> booking_type,
     booking_start_date |-> booking_start_date, participants |-> participants]

BookingSet ==
    { Booking(FALSE, "Hirostar", Str_10_EUR, "PAID", "PUBLIC",
              DateTimeStr(2, Hours(7), ""), << Participant("p1", "Ana") >>),
      Booking(FALSE, "Pista 2", Str_2_5_EUR, "UNPAID", "PRIVATE",
              DateTimeStr(2, 0, "Z"), << Participant("p1", "Ana"), Participant("p2", "Luis") >>),
      Booking(TRUE, "Hirostar", Str_10_EUR, "PAID", "PUBLIC",
              DateTimeStr(2, Hours(7), ""), << Participant("p2", "Luis") >>),
      Booking(FALSE, "Hirostar", Str_0_004_EUR, "PAID", "PRIVATE",
              DateTimeStr(3, Hours(7), ""), << >>),
      Booking(FALSE, "Pista 2", Str_0_004_EUR, "PENDING", "PUBLIC",
              DateStr(1), << Participant("p3", "") >>),
      Booking(TRUE, "Pista 2", << >>, "UNPAID", "PRIVATE",
              EmptyStr, << Participant("p1", "Ana") >>) }

BookingLists == UNION { [1..n -> BookingSet] : n \in 0..MaxBookings }

Slot(start_time) == [start_time |-> start_time, duration |-> 90, price |-> "20 EUR"]

\* entries of an availability response: one per resource and start date
ResourceEntries ==
    { [resource_id |-> "r1", slots |-> << Slot("09:00"), Slot("10:00") >>],
      [resource_id |-> "r1", slots |-> << Slot("00:30") >>],
      [resource_id |-> "r2", slots |-> << >>] }

AvailabilityLists == UNION { [1..n -> ResourceEntries] : n \in 0..MaxResources }

PadelPlayer(level_value) ==
    [sports |-> << [sport_id |-> "TENNIS", level_value |-> 10],
                   [sport_id |-> "PADEL", level_value |-> level_value] >>]

\* what get_players returned, level_value in tenths; << >> also stands for
\* the failure execute_get_member_insights absorbs
Rosters == { << >>, << PadelPlayer(35) >>, << PadelPlayer(35), PadelPlayer(20), [sports |-> << >>] >> }

\* variant: canceled bookings are kept
ActiveKeepsCanceled(bookings) == bookings

\* [b for b in bookings if not b.get("is_canceled")]
Active(bookings) == SelectSeq(bookings, LAMBDA b : ~b.is_canceled)

\* [b for b in bookings if b.get("is_canceled")]
Canceled(bookings) == SelectSeq(bookings, LAMBDA b : b.is_canceled)

\* d.setdefault(key, 0); d[key] += 1 over a list of keys
CountOf(keys) ==
    [k \in Range(keys) |-> Cardinality({ i \in 1..Len(keys) : keys[i] = k })]

\* the keys of a dict in insertion order: the first occurrence of every key
Distinct(keys) ==
    LET firsts == { i \in 1..Len(keys) : \A j \in 1..(i - 1) : keys[j] # keys[i] }
    IN  [k \in 1..Cardinality(firsts) |->
            keys[CHOOSE i \in firsts : Cardinality({ j \in firsts : j <= i }) = k]]

RECURSIVE SumValues(_)
\* sum(d.values())
SumValues(d) ==
    IF DOMAIN d = {} THEN 0
    ELSE LET k == CHOOSE k \in DOMAIN d : TRUE
         IN  d[k] + SumValues([x \in DOMAIN d \ {k} |-> d[x]])

\* variant: the price replaces the revenue of the group
AccumulateOverwrites(revenue, price) == price

\* revenue += price
Accumulate(revenue, price) == revenue + price

RECURSIVE Revenue(_)
\* the prices of a list of bookings summed, in units of 1 / PriceUnit
Revenue(bookings) ==
    IF bookings = << >> THEN 0
    ELSE Accumulate(Revenue(SubSeq(bookings, 1, Len(bookings) - 1)),
                    _parse_price(bookings[Len(bookings)].price).value)

\* the exceptions _parse_price lets out over a list of bookings
PriceErrors(bookings) ==
    { _parse_price(bookings[i].price).exc : i \in 1..Len(bookings) } \ {"none"}

RECURSIVE SortedByCount(_)
\* sorted(items, key=count, reverse=True): stable, largest count first
SortedByCount(items) ==
    IF items = << >> THEN << >>
    ELSE LET best == CHOOSE i \in 1..Len(items) :
                        \A j \in 1..Len(items) :
                            \/ items[j].count < items[i].count
                            \/ items[j].count = items[i].count /\ i <= j
         IN  << items[best] >>
                \o SortedByCount(SubSeq(items, 1, best - 1) \o SubSeq(items, best + 1, Len(items)))

\* _extract_participants; the names of the model carry no outer whitespace
_extract_participants(booking) ==
    LET names == SelectSeq([i \in 1..Len(booking.participants) |-> booking.participants[i].name],
                           LAMBDA name : name # "")
    IN  IF names # << >> THEN names ELSE << "Desconocido" >>

\* available_slots[resource_id] = [...]: the last entry of a resource_id is
\* the one the dict keeps
LastEntry(availability, resource_id) ==
    CHOOSE i \in 1..Len(availability) :
        /\ availability[i].resource_id = resource_id
        /\ \A j \in (i + 1)..Len(availability) : availability[j].resource_id # resource_id

ResourceIds(availability) == { availability[i].resource_id : i \in 1..Len(availability) }

\* variant: the percentage is cut after its first decimal
Percent1Truncated(n, d) == (n * 1000) \div d

\* round(n / d * 100, 1), in tenths of a percent
Percent1(n, d) == RoundHalfEven(n * 1000, d)

execute_get_occupancy_for_date(bookings, availability) ==
    LET active_bookings == Active(bookings)
        courts == [court \in { b.resource_name : b \in Range(active_bookings) } |->
                      SelectSeq(active_bookings, LAMBDA b : b.resource_name = court)]
        available_slots ==
            [rid \in ResourceIds(availability) |->
                LET slots == availability[LastEntry(availability, rid)].slots
                IN  [i \in 1..Len(slots) |->
                        [start_time |-> slots[i].start_time, duration_min |-> slots[i].duration]]]
        total_available == SumValues([rid \in DOMAIN available_slots |-> Len(available_slots[rid])])
        total_booked == Len(active_bookings)
    IN  [total_bookings |-> total_booked,
         total_available_slots |-> total_available,
         occupancy_percentage |->
            IF total_booked + total_available > 0
            THEN Percent1(total_booked, total_booked + total_available)
            ELSE 0,
         courts |->
            [court \in DOMAIN courts |->
                [bookings_count |-> Len(courts[court]),
                 time_slots |->
                    [i \in 1..Len(courts[court]) |->
                        LET b == courts[court][i]
                        IN  [start_iso |-> _utc_to_local(b.booking_start_date, _club_tz),
                             players |-> _extract_participants(b),
                             type |-> b.booking_type,
                             payment_status |-> b.payment_status,
                             price |-> b.price]]]],
         available_slots_per_court |->
            [rid \in DOMAIN available_slots |-> Len(available_slots[rid])]]

\* the "N/A" of busiest_day and quietest_day
NotAvailable == [kind |-> "N/A", day |-> 0, sec |-> 0, tail |-> ""]

\* max(daily, key=daily.get) for sign = 1, min(daily, key=daily.get) for
\* sign = -1: the first key, in insertion order, with the extreme count
FirstExtreme(keys, daily, sign) ==
    LET order == Distinct(keys)
        i == CHOOSE i \in 1..Len(order) :
                /\ \A j \in 1..Len(order) : sign * daily[order[j]] <= sign * daily[order[i]]
                /\ \A j \in 1..(i - 1) : daily[order[j]] # daily[order[i]]
    IN  order[i]

execute_get_occupancy_for_range(bookings) ==
    LET active == Active(bookings)
        canceled == Canceled(bookings)
        dates == [i \in 1..Len(active) |-> _utc_to_local_date(active[i].booking_start_date, _club_tz)]
        daily == CountOf(dates)
        by_court == CountOf([i \in 1..Len(active) |-> active[i].resource_name])
    IN  [total_bookings |-> Len(active),
         total_canceled |-> Len(canceled),
         daily_breakdown |-> daily,
         bookings_by_court |-> by_court,
         busiest_day |-> IF dates # << >> THEN FirstExtreme(dates, daily, 1) ELSE NotAvailable,
         quietest_day |-> IF dates # << >> THEN FirstExtreme(dates, daily, -1) ELSE NotAvailable]

\* revenue figures in cents
execute_get_revenue_summary(bookings) ==
    LET active == Active(bookings)
        total_revenue == Revenue(active)
        PaymentGroup(ps) == SelectSeq(active, LAMBDA b : b.payment_status = ps)
        CourtGroup(court) == SelectSeq(active, LAMBDA b : b.resource_name = court)
        DateGroup(bdate) ==
            SelectSeq(active, LAMBDA b : _utc_to_local_date(b.booking_start_date, _club_tz) = bdate)
    IN  [total_revenue |-> round2(total_revenue),
         total_bookings |-> Len(active),
         average_booking_value |->
            IF active # << >>
            THEN RoundHalfEven(total_revenue, (PriceUnit \div 100) * Len(active))
            ELSE 0,
         by_payment_status |->
            [ps \in { b.payment_status : b \in Range(active) } |->
                [count |-> Len(PaymentGroup(ps)), revenue |-> round2(Revenue(PaymentGroup(ps)))]],
         by_court |->
            [court \in { b.resource_name : b \in Range(active) } |->
                [count |-> Len(CourtGroup(court)), revenue |-> round2(Revenue(CourtGroup(court)))]],
         daily_revenue |->
            [bdate \in { _utc_to_local_date(b.booking_start_date, _club_tz) : b \in Range(active) } |->
                round2(Revenue(DateGroup(bdate)))]]

\* levels and averages in tenths
execute_get_member_insights(players, bookings) ==
    LET active == Active(bookings)
        entries == Concat([i \in 1..Len(active) |-> active[i].participants])
        pids == Distinct([i \in 1..Len(entries) |-> entries[i].participant_id])
        player_bookings ==
            [i \in 1..Len(pids) |->
                LET first == CHOOSE j \in 1..Len(entries) :
                                /\ entries[j].participant_id = pids[i]
                                /\ \A k \in 1..(j - 1) : entries[k].participant_id # pids[i]
                IN  [name |-> entries[first].name,
                     count |-> Cardinality({ j \in 1..Len(entries) :
                                                entries[j].participant_id = pids[i] })]]
        sorted_bookers == SortedByCount(player_bookings)
        padel == Concat([i \in 1..Len(players) |->
                            SelectSeq(players[i].sports, LAMBDA sport : sport.sport_id = "PADEL")])
    IN  [total_registered_players |-> Len(players),
         active_players_in_period |-> Len(pids),
         top_bookers |-> SubSeq(sorted_bookers, 1, IF Len(sorted_bookers) < 10 THEN Len(sorted_bookers) ELSE 10),
         total_bookings |-> Len(active),
         avg_bookings_per_active_player |->
            IF pids # << >> THEN RoundHalfEven(Len(active) * 10, Len(pids)) ELSE 0,
         padel_level_distribution |-> CountOf([i \in 1..Len(padel) |-> padel[i].level_value])]

\* bdate.weekday() of day d: 0 is Monday, and day_names[0] is "Lunes"
weekday(day) == (day + 3) % 7

Alert(kind, value, count) == [kind |-> kind, value |-> value, count |-> count]

\* the threshold of the cancellation alert, in percent
CancellationThreshold == 15

\* variant: the alert is raised at the threshold too
ReachesThreshold(rate, threshold) == rate >= threshold

\* cancellation_rate > 15
ExceedsThreshold(rate, threshold) == rate > threshold

\* rates in tenths of a percent, revenue in cents, hours and weekdays by
\* number; day_of_week_distribution lists its keys in the order of the dict
execute_get_operational_alerts(bookings) ==
    LET active == Active(bookings)
        canceled == Canceled(bookings)
        cancellation_rate ==
            IF bookings # << >> THEN Percent1(Len(canceled), Len(bookings)) ELSE 0
        hours == [i \in 1..Len(active) |-> _utc_to_local_hour(active[i].booking_start_date, _club_tz)]
        hour_counts == CountOf(hours)
        hour_items == [i \in 1..Len(Distinct(hours)) |->
                          [hour |-> Distinct(hours)[i], count |-> hour_counts[Distinct(hours)[i]]]]
        sorted_hours == SortedByCount(hour_items)
        HourView(items) == [i \in 1..Len(items) |-> [hour |-> items[i].hour, bookings |-> items[i].count]]
        peak_hours == HourView(SubSeq(sorted_hours, 1, IF Len(sorted_hours) < 5 THEN Len(sorted_hours) ELSE 5))
        quiet_hours ==
            IF Len(sorted_hours) >= 5
            THEN HourView(SubSeq(sorted_hours, Len(sorted_hours) - 4, Len(sorted_hours)))
            ELSE << >>
        type_dist == CountOf([i \in 1..Len(active) |-> active[i].booking_type])
        bdates == [i \in 1..Len(active) |-> _utc_to_local_date(active[i].booking_start_date, _club_tz)]
        parsed == SelectSeq(bdates, LAMBDA d : d.kind = "date")
        days == [i \in 1..Len(parsed) |-> weekday(parsed[i].day)]
        dow_counts == [i \in 1..Len(Distinct(days)) |->
                          [day |-> Distinct(days)[i], bookings |-> CountOf(days)[Distinct(days)[i]]]]
        unpaid == SelectSeq(active, LAMBDA b : b.payment_status \in {"UNPAID", "PENDING"})
        unpaid_revenue == Revenue(unpaid)
    IN  [total_bookings |-> Len(active),
         total_canceled |-> Len(canceled),
         cancellation_rate_pct |-> cancellation_rate,
         peak_hours |-> peak_hours,
         quiet_hours |-> quiet_hours,
         booking_type_distribution |-> type_dist,
         day_of_week_distribution |-> dow_counts,
         unpaid_bookings |-> Len(unpaid),
         unpaid_revenue_eur |-> round2(unpaid_revenue),
         alerts |->
            (IF ExceedsThreshold(cancellation_rate, CancellationThreshold * 10)
             THEN << Alert("cancelacion", cancellation_rate, 0) >> ELSE << >>)
            \o (IF unpaid_revenue > 0
                THEN << Alert("sin cobrar", round2(unpaid_revenue), Len(unpaid)) >> ELSE << >>)
            \o (IF quiet_hours # << >>
                THEN << Alert("subutilizado", quiet_hours[1].hour, 0) >> ELSE << >>)]

execute_get_available_slots(availability) ==
    LET courts ==
            [rid \in ResourceIds(availability) |->
                LET slots == availability[LastEntry(availability, rid)].slots
                IN  [i \in 1..Len(slots) |->
                        [start_time |-> slots[i].start_time,
                         duration_min |-> slots[i].duration,
                         price |-> slots[i].price]]]
        total_slots == SumValues([i \in 1..Len(availability) |-> Len(availability[i].slots)])
    IN  [total_available_slots |-> total_slots,
         courts_with_availability |-> Cardinality(DOMAIN courts),
         slots_by_court |-> courts]

\* the court names in the order of str
CourtNames == << "Hirostar", "Pista 2" >>

\* x["court"], x["start_iso"] as one number that orders as the tuple does:
\* "" before every date, "2024-03-01" before "2024-03-01T00:00:00", a day's
\* "T25:00:00" after its times of day, "T" after every date
SortKey(result) ==
    LET rank == CHOOSE i \in 1..Len(CourtNames) : CourtNames[i] = result.court
        iso == result.start_iso
        per_day == SecondsPerDay + 2
        start == IF iso.kind = "empty" THEN 0
                 ELSE IF iso.kind = "date" THEN iso.day * per_day
                 ELSE IF iso.kind = "datetime" THEN iso.day * per_day + iso.sec + 1
                 ELSE IF iso.day >= 1 THEN iso.day * per_day + SecondsPerDay + 1
                 ELSE (MaxDay + 2) * per_day
    IN  rank * (MaxDay + 3) * per_day + start

RECURSIVE SortedByCourtAndStart(_)
\* results.sort(key=(court, start_iso)): stable, smallest first
SortedByCourtAndStart(results) ==
    IF results = << >> THEN << >>
    ELSE LET least == CHOOSE i \in 1..Len(results) :
                         \A j \in 1..Len(results) :
                            \/ SortKey(results[i]) < SortKey(results[j])
                            \/ SortKey(results[i]) = SortKey(results[j]) /\ i <= j
         IN  << results[least] >>
                \o SortedByCourtAndStart(SubSeq(results, 1, least - 1)
                                            \o SubSeq(results, least + 1, Len(results)))

\* the characters of the names and filter texts of the model
Chars ==
    ("" :> << >>)
        @@ ("Hirostar" :> << "H", "i", "r", "o", "s", "t", "a", "r" >>)
        @@ ("Pista 2" :> << "P", "i", "s", "t", "a", " ", "2" >>)
        @@ ("Ana" :> << "A", "n", "a" >>)
        @@ ("Luis" :> << "L", "u", "i", "s" >>)
        @@ ("Desconocido" :> << "D", "e", "s", "c", "o", "n", "o", "c", "i", "d", "o" >>)
        @@ ("hiro" :> << "h", "i", "r", "o" >>)
        @@ ("IS" :> << "I", "S" >>)
        @@ ("an" :> << "a", "n" >>)
        @@ ("LU" :> << "L", "U" >>)
        @@ ("des" :> << "d", "e", "s" >>)

\* the upper-case letters of the model and their lower-case letters
LowerCase ==
    ("A" :> "a") @@ ("D" :> "d") @@ ("H" :> "h") @@ ("I" :> "i")
        @@ ("L" :> "l") @@ ("P" :> "p") @@ ("S" :> "s") @@ ("U" :> "u")

\* str.lower()
lower(text) ==
    [i \in 1..Len(text) |-> IF text[i] \in DOMAIN LowerCase THEN LowerCase[text[i]] ELSE text[i]]

\* pattern in text
In(pattern, text) ==
    \E i \in 0..(Len(text) - Len(pattern)) : SubSeq(text, i + 1, i + Len(pattern)) = pattern

\* `if court_name`, `if player_name`: neither None nor ""
Truthy(text) == text # None /\ text # ""

\* the filters the model may pass
CourtFilters == { None, "", "hiro", "IS" }
PlayerFilters == { None, "an", "LU", "des" }

\* the `continue` conditions of the loop of execute_get_booking_details
Skipped(b, court_name, player_name, include_canceled) ==
    \/ b.is_canceled /\ ~include_canceled
    \/ Truthy(court_name) /\ ~In(lower(Chars[court_name]), lower(Chars[b.resource_name]))
    \/ /\ Truthy(player_name)
       /\ ~\E i \in 1..Len(_extract_participants(b)) :
                In(lower(Chars[player_name]), lower(Chars[_extract_participants(b)[i]]))

execute_get_booking_details(bookings, court_name, player_name, include_canceled) ==
    LET kept == SelectSeq(bookings,
                          LAMBDA b : ~Skipped(b, court_name, player_name, include_canceled))
        results == [i \in 1..Len(kept) |->
                       [court |-> kept[i].resource_name,
                        start_iso |-> _utc_to_local(kept[i].booking_start_date, _club_tz),
                        players |-> _extract_participants(kept[i]),
                        participant_details |->
                            [j \in 1..Len(kept[i].participants) |->
                                [name |-> kept[i].participants[j].name]],
                        booking_type |-> kept[i].booking_type,
                        is_canceled |-> kept[i].is_canceled,
                        price |-> kept[i].price,
                        payment_status |-> kept[i].payment_status]]
    IN  [filters_applied |-> [court_name |-> court_name, player_name |-> player_name,
                              include_canceled |-> include_canceled],
         total_bookings |-> Len(results),
         bookings |-> SortedByCourtAndStart(results)]

\* one builder runs over the bookings fetched
ViewInit ==
    /\ call_args \in [bookings : BookingLists]
    /\ call_result = NoResult
    /\ AgentInit /\ TokenIdle /\ PagingIdle /\ TzIdle

OccupancyForDate ==
    /\ call_result = NoResult
    /\ \E availability \in AvailabilityLists :
            call_result' =
                [fn |-> "execute_get_occupancy_for_date", inputs |-> availability,
                 exc |-> "none",
                 value |-> execute_get_occupancy_for_date(call_args.bookings, availability)]
    /\ UNCHANGED << agentVars, tokenVars, pagingVars, call_args, tzVars >>

OccupancyForRange ==
    /\ call_result = NoResult
    /\ call_result' =
            [fn |-> "execute_get_occupancy_for_range", inputs |-> << >>, exc |-> "none",
             value |-> execute_get_occupancy_for_range(call_args.bookings)]
    /\ UNCHANGED << agentVars, tokenVars, pagingVars, call_args, tzVars >>

\* the exception of _parse_price, if one gets out, leaves the builder
RevenueSummary ==
    /\ call_result = NoResult
    /\ LET errors == PriceErrors(Active(call_args.bookings))
       IN  call_result' =
                IF errors # {}
                THEN [fn |-> "execute_get_revenue_summary", inputs |-> << >>,
                      exc |-> CHOOSE e \in errors : TRUE, value |-> << >>]
                ELSE [fn |-> "execute_get_revenue_summary", inputs |-> << >>, exc |-> "none",
                      value |-> execute_get_revenue_summary(call_args.bookings)]
    /\ UNCHANGED << agentVars, tokenVars, pagingVars, call_args, tzVars >>

MemberInsights ==
    /\ call_result = NoResult
    /\ \E players \in Rosters :
            call_result' =
                [fn |-> "execute_get_member_insights", inputs |-> players, exc |-> "none",
                 value |-> execute_get_member_insights(players, call_args.bookings)]
    /\ UNCHANGED << agentVars, tokenVars, pagingVars, call_args, tzVars >>

OperationalAlerts ==
    /\ call_result = NoResult
    /\ call_result' =
            [fn |-> "execute_get_operational_alerts", inputs |-> << >>, exc |-> "none",
             value |-> execute_get_operational_alerts(call_args.bookings)]
    /\ UNCHANGED << agentVars, tokenVars, pagingVars, call_args, tzVars >>

AvailableSlots ==
    /\ call_result = NoResult
    /\ \E availability \in AvailabilityLists :
            call_result' =
                [fn |-> "execute_get_available_slots", inputs |-> availability, exc |-> "none",
                 value |-> execute_get_available_slots(availability)]
    /\ UNCHANGED << agentVars, tokenVars, pagingVars, call_args, tzVars >>

BookingDetails ==
    /\ call_result = NoResult
    /\ \E court_name \in CourtFilters, player_name \in PlayerFilters, include_canceled \in BOOLEAN :
            call_result' =
                [fn |-> "execute_get_booking_details",
                 inputs |-> [court_name |-> court_name, player_name |-> player_name,
                             include_canceled |-> include_canceled],
                 exc |-> "none",
                 value |-> execute_get_booking_details(call_args.bookings, court_name,
                                                       player_name, include_canceled)]
    /\ UNCHANGED << agentVars, tokenVars, pagingVars, call_args, tzVars >>

ViewNext ==
    \/ OccupancyForDate
    \/ OccupancyForRange
    \/ RevenueSummary
    \/ MemberInsights
    \/ OperationalAlerts
    \/ AvailableSlots
    \/ BookingDetails

ViewSpec == ViewInit /\ [][ViewNext]_vars

\* bookings of one fetch of the operational alerts
MaxAlertBookings == 6

\* a booking of which only the start matters
StartingAt(booking_start_date) ==
    Booking(FALSE, "Hirostar", Str_10_EUR, "PAID", "PUBLIC", booking_start_date, << >>)

\* bookings at five hours of the day, and two whose start cannot be parsed
StartSet ==
    { StartingAt(DateTimeStr(2, Hours(14), "")), StartingAt(DateTimeStr(2, Hours(15), "")),
      StartingAt(DateTimeStr(3, Hours(16), "")), StartingAt(DateTimeStr(3, Hours(17), "")),
      StartingAt(DateTimeStr(3, Hours(18), "")),
      StartingAt(EmptyStr), StartingAt(MalformedStr(1)) }

\* the operational alerts over enough bookings for five hours of the day
AlertsInit ==
    /\ call_args \in [bookings : UNION { [1..n -> StartSet] : n \in 0..MaxAlertBookings }]
    /\ call_result = NoResult
    /\ AgentInit /\ TokenIdle /\ PagingIdle /\ TzIdle

AlertsNext == OperationalAlerts

AlertsSpec == AlertsInit /\ [][AlertsNext]_vars

\* bookings of one fetch when only their number matters
MaxTotal == 113

\* a booking of which only the flag matters
Flagged(is_canceled) ==
    Booking(is_canceled, "Hirostar", Str_10_EUR, "PAID", "PUBLIC", DateTimeStr(2, Hours(14), ""), << >>)

\* the operational alerts over any number of bookings, any number of them
\* canceled
RateInit ==
    /\ \E total \in 0..MaxTotal, n_canceled \in 0..MaxTotal :
            /\ n_canceled <= total
            /\ call_args = [bookings |-> [i \in 1..total |-> Flagged(i <= n_canceled)]]
    /\ call_result = NoResult
    /\ AgentInit /\ TokenIdle /\ PagingIdle /\ TzIdle

RateNext == OperationalAlerts

RateSpec == RateInit /\ [][RateNext]_vars

\* a booking of which only the price matters
PricedBooking(price) ==
    Booking(FALSE, "Hirostar", price, "PAID", "PUBLIC", DateTimeStr(2, Hours(7), ""), << >>)

\* _parse_price on any price string, and the revenue of a booking priced so
\* with a booking priced ""
PriceInit ==
    /\ \E price_str \in PriceStrings :
            call_args = [price_str |-> price_str,
                         bookings |-> << PricedBooking(price_str), PricedBooking(<< >>) >>]
    /\ call_result = NoResult
    /\ AgentInit /\ TokenIdle /\ PagingIdle /\ TzIdle

ParsePrice ==
    /\ call_result = NoResult
    /\ call_result' =
            [fn |-> "_parse_price", inputs |-> << >>,
             exc |-> _parse_price(call_args.price_str).exc,
             value |-> _parse_price(call_args.price_str).value]
    /\ UNCHANGED << agentVars, tokenVars, pagingVars, call_args, tzVars >>

PriceNext == ParsePrice \/ RevenueSummary

PriceSpec == PriceInit /\ [][PriceNext]_vars

(* ------------------------- the club timezone -------------------------- *)

\* objects constructed in one process
MaxApis == 2
MaxAgents == 2

\* ZoneInfo(tz_name)
ZoneInfo(tz_name) == CHOOSE tz \in Zones : tz.name = tz_name

ZoneNames == { tz.name : tz \in Zones }

TzInit == AgentInit /\ TokenIdle /\ PagingIdle /\ FnIdle /\ TzIdle

\* PlaytomicAPI(client_id, client_secret, tz_name)
PlaytomicAPI_init(tz_name) ==
    /\ Len(api_club_tz) < MaxApis
    /\ api_club_tz' = Append(api_club_tz, tz_name)
    /\ UNCHANGED << module_club_tz, agent_api, agentVars, tokenVars, pagingVars, fnVars >>

\* PlaytomicAgent(api, ..., timezone_name): __init__ calls set_club_timezone
PlaytomicAgent_init(api, timezone_name) ==
    /\ Len(agent_api) < MaxAgents
    /\ agent_api' = Append(agent_api, api)
    /\ module_club_tz' = timezone_name
    /\ UNCHANGED << api_club_tz, agentVars, tokenVars, pagingVars, fnVars >>

\* set_club_timezone(tz_name) called on its own
set_club_timezone(tz_name) ==
    /\ module_club_tz' = tz_name
    /\ UNCHANGED << api_club_tz, agent_api, agentVars, tokenVars, pagingVars, fnVars >>

\* a builder of an agent fetches local day `day` through the agent's gateway,
\* which queries the UTC range of that day in api.club_tz, and buckets a
\* booking that starts in the range with _utc_to_local_date under _club_tz
BucketBooking(agent, day, utc_str) ==
    LET queried == _local_day_to_utc_range(day * SecondsPerDay,
                                           ZoneInfo(api_club_tz[agent_api[agent]]))
    IN  /\ call_result = NoResult
        /\ utc_str.kind = "datetime"
        /\ queried.utc_start <= strptime(utc_str)
        /\ strptime(utc_str) <= queried.utc_end
        /\ call_result' =
                [fn |-> "builder", agent |-> agent, local_day |-> day, utc_str |-> utc_str,
                 value |-> _utc_to_local_date(utc_str, ZoneInfo(module_club_tz))]
        /\ UNCHANGED << call_args, tzVars, agentVars, tokenVars, pagingVars >>

TzNext ==
    \/ \E tz_name \in ZoneNames : PlaytomicAPI_init(tz_name)
    \/ \E api \in 1..Len(api_club_tz), timezone_name \in ZoneNames :
            PlaytomicAgent_init(api, timezone_name)
    \/ \E tz_name \in ZoneNames : set_club_timezone(tz_name)
    \/ \E agent \in 1..Len(agent_api), day \in 1..MaxDay, utc_str \in UtcStrings :
            BucketBooking(agent, day, utc_str)

TzSpec == TzInit /\ [][TzNext]_vars

(* ------------------------------ claims -------------------------------- *)

\* C1: at every point of every run of chat and reset_conversation calls the
\* history holds exactly one message of role system, and it is the first.
C1_OneSystemMessageFirst ==
    /\ Len(messages) >= 1
    /\ messages[1].role = "system"
    /\ Cardinality({ i \in Indices : messages[i].role = "system" }) = 1

\* a second chat call has answered, on top of a history with tool traffic
C1_Witness ==
    /\ pc = "idle"
    /\ turns = 2
    /\ ret.kind = "answer"
    /\ \E i \in Indices : messages[i].role = "tool"

\* C2 (as claimed): whenever the model is about to be called, every tool
\* invocation of every earlier reply in the history has exactly one
\* tool-result message with its identifier.
C2_EveryInvocationAnswered ==
    (pc = "call_model" /\ iter < max_iterations)
        => \A id \in InvocationIds(Indices) : Cardinality(ResultsFor(id)) = 1

\* C3: one chat call invokes the model at most 5 times.
C3_AtMostFiveModelCalls == modelCalls <= 5

\* the fifth reply of a turn requested tools again
C3_Witness == modelCalls = 5 /\ pc = "dispatch"

\* C4 (as claimed): a chat call whose 5 model replies all requested tools
\* ends by returning the fixed apology, with the history still holding the
\* user message, the 5 replies and a result for each of their invocations.
C4_CapReturnsApology ==
    ( /\ pc = "idle"
      /\ lastOp = "chat"
      /\ modelCalls = 5
      /\ Cardinality({ i \in TurnIndices : messages[i].role = "assistant" }) = 5
      /\ \A i \in TurnIndices :
            messages[i].role = "assistant" => messages[i].tool_calls # << >> )
        => /\ ret.kind = "gave_up"
           /\ ret.text = FALLBACK
           /\ messages[turnStart + 1].role = "user"
           /\ \A id \in InvocationIds(TurnIndices) : Cardinality(ResultsFor(id)) = 1

\* C5: a reply without tool invocations ends the chat call at once: the
\* call returns the reply's text ("" for no text), the reply is the last
\* message and the last model call of the turn, the chart data returned
\* come from this turn's tool results only, and they are empty when the
\* reply was the first of the turn.
C5_FinalAnswerReturnsAtOnce ==
    ret.kind = "answer" =>
        LET last == messages[Len(messages)] IN
        /\ pc = "idle"
        /\ last.role = "assistant"
        /\ last.tool_calls = << >>
        /\ ret.text = (IF last.content = None THEN "" ELSE last.content)
        /\ Cardinality({ i \in TurnIndices : messages[i].role = "assistant" }) = modelCalls
        /\ Len(ret.chart_data) <= Cardinality({ i \in TurnIndices : messages[i].role = "tool" })
        /\ modelCalls = 1 => ret.chart_data = << >>

\* the second turn is answered on its first reply with a text, after a first
\* turn in which a builder succeeded
C5_Witness ==
    /\ ret.kind = "answer"
    /\ ret.text = "texto"
    /\ turns = 2
    /\ modelCalls = 1
    /\ \E i \in Indices :
          /\ i <= turnStart
          /\ messages[i].role = "tool"
          /\ ~IsErrorText(messages[i].content)

\* C6 (as claimed): an invocation whose argument string cannot be decoded is
\* answered with an error payload appended as its tool result, and the loop
\* goes on.
C6_MalformedArgumentsAnswered ==
    [][ (pc = "dispatch" /\ ~json_loads(Head(pending).arguments).ok)
            => AnsweredWithError ]_vars

\* C7 (as claimed): an invocation naming a tool outside TOOL_EXECUTORS runs
\* no builder, is answered with an error payload under its identifier, adds
\* nothing to chart data, and the loop goes on.
C7_UnknownToolAnswered ==
    [][ (pc = "dispatch" /\ Head(pending).name \notin TOOL_EXECUTORS)
            => (AnsweredWithError /\ chart_data' = chart_data /\ plan' = << >>) ]_vars

\* C8: the chart data a chat call returns are, in dispatch order, one
\* (tool name, view) pair per invocation of the turn whose builder returned;
\* an invocation whose builder raised has an error payload as its tool
\* result and no chart entry.
C8_ChartDataIsSuccessfulBuilders ==
    ret.kind \in {"answer", "gave_up"} =>
        LET ok == SelectSeq(dispatched, LAMBDA d : d.outcome = "ok") IN
        /\ { d.id : d \in Range(dispatched) } = InvocationIds(TurnIndices)
        /\ ret.chart_data = [ i \in 1..Len(ok) |-> << ok[i].name, View(ok[i].name) >> ]
        /\ \A d \in Range(dispatched) :
              \A j \in ResultsFor(d.id) :
                 IF d.outcome = "ok"
                 THEN messages[j].content = json_dumps(View(d.name))
                 ELSE IsErrorText(messages[j].content)

\* a turn returned after one builder succeeded and another raised
C8_Witness ==
    /\ ret.kind \in {"answer", "gave_up"}
    /\ \E d \in Range(dispatched) : d.outcome = "ok"
    /\ \E d \in Range(dispatched) : d.outcome = "raised"
    /\ Len(ret.chart_data) >= 1

\* C9: right after reset_conversation the history is the system
\* instruction alone.
C9_ResetLeavesSystemOnly ==
    lastOp = "reset" => (Len(messages) = 1 /\ messages[1] = SystemMsg)

\* reset after every chat turn the session allows
C9_Witness == lastOp = "reset" /\ turns = MaxTurns

\* C10 (as claimed): every chat call eventually returns.
C10_ChatReturns == (pc # "idle") ~> (pc = "idle")

\* C11 (as claimed): in every builder a failure of the availability fetch or
\* of the roster fetch is absorbed: no step taken while a builder is at one
\* of these fetches appends a tool result or leaves the builder; the builder
\* goes on to its next fetch or to returning its view.
C11_SecondaryFetchFailureAbsorbed ==
    [][ (pc \in {"get_players", "get_availability"})
            => ( messages' = messages /\
                 pc' \in {"get_players", "get_availability", "get_bookings",
                          "builder_return"} ) ]_vars

\* C12 (as claimed): with several callers in _ensure_token at once, at most
\* one token request is in flight at any time.
C12_AtMostOneTokenRequestInFlight == Cardinality(InFlight) <= 1

\* C13: every authenticated request carries a token that either was acquired
\* after _ensure_token began its check for that request, or is the token the
\* check read, with more than 60 seconds left before the expiry recorded
\* then; a missing token or one with 60 seconds or less left is not carried.
C13_CarriedTokenFreshOrValid ==
    sent.made =>
        /\ sent.token # NoToken
        /\ \/ sent.token > sent.issued_before
           \/ /\ sent.token = sent.checked_token
              /\ sent.checked_left > 60

\* a request reused the token its check found valid, and a second caller
\* has since found the same token too close to expiry and requested another
C13_Witness ==
    /\ sent.made
    /\ sent.token = sent.checked_token
    /\ sent.token <= sent.issued_before
    /\ \E c \in Callers :
          /\ caller[c].pc = "post"
          /\ caller[c].checked_token = sent.token
          /\ caller[c].checked_left = 60

\* C14: get_bookings requests the pages page, page + 1, page + 2, ... with
\* none skipped or repeated; every page before the last one requested was
\* full, so no request follows a short or empty page; and the call returns
\* the records of all pages received, in order, the last page being the
\* first one shorter than size.
C14_ConsecutivePagesConcatenated ==
    /\ requested_pages = [ i \in 1..Len(requested_pages) |-> page + i - 1 ]
    /\ \A i \in 1..Len(requested_pages) - 1 : Len(responses[i]) = size
    /\ gb_pc = "loop" => \A i \in 1..Len(responses) : Len(responses[i]) = size
    /\ gb_pc = "returned" =>
          /\ Len(responses) = Len(requested_pages)
          /\ Len(responses) >= 1
          /\ Len(responses[Len(responses)]) < size
          /\ all_bookings = Concat(responses)

\* the call returned after two full pages and a short, non-empty third
C14_Witness ==
    /\ gb_pc = "returned"
    /\ requested_pages = << 0, 1, 2 >>
    /\ Len(responses[3]) = 1
    /\ Len(all_bookings) = 2 * size + 1

\* C18 (as claimed): for every UTC timestamp and club timezone,
\* _utc_to_local_date applied to the result of _utc_to_local yields the
\* local calendar date of the timestamp.
C18_RoundTripKeepsLocalDate ==
    (call_result.fn = "_utc_to_local_date of _utc_to_local"
        /\ call_args.utc_str.kind = "datetime")
        => call_result.value = LocalDateOf(call_args.utc_str, call_args.tz)

\* C18 (amended): for every UTC timestamp and club timezone,
\* _utc_to_local_date of the timestamp is its local calendar date, and so is
\* the date part of _utc_to_local of the timestamp; _utc_to_local_date
\* applied to the result of _utc_to_local converts a second time, and yields
\* that date exactly when the second shift stays within the same day (always
\* in a zone with offset 0).
C18_LocalDateOfUtcTimestamp ==
    call_args.utc_str.kind = "datetime" =>
        LET t == call_args.utc_str
            tz == call_args.tz
            local == strptime(t) + utcoffset(tz, strptime(t))
            again == local + utcoffset(tz, local)
        IN  /\ call_result.fn = "_utc_to_local_date"
                => call_result.value = LocalDateOf(t, tz)
            /\ call_result.fn = "_utc_to_local"
                => /\ call_result.value.kind = "datetime"
                   /\ DateStr(call_result.value.day) = LocalDateOf(t, tz)
                   /\ strptime(call_result.value) = local
            /\ call_result.fn = "_utc_to_local_date of _utc_to_local"
                => /\ (call_result.value = LocalDateOf(t, tz)
                         <=> again \div SecondsPerDay = local \div SecondsPerDay)
                   /\ utcoffset(tz, strptime(t)) = 0
                         => call_result.value = LocalDateOf(t, tz)

\* the double conversion of 07:00 UTC in a zone five hours behind UTC: the
\* local date is the same day (02:00), the result is the day before (21:00)
C18_Witness ==
    /\ call_result.fn = "_utc_to_local_date of _utc_to_local"
    /\ call_args.utc_str = DateTimeStr(2, Hours(7), "")
    /\ call_args.tz.name = "America/Cancun"
    /\ LocalDateOf(call_args.utc_str, call_args.tz) = DateStr(2)
    /\ call_result.value = DateStr(1)

LeadingToken(s) ==
    LET starts == { i \in 1..Len(s) : s[i] # " " }
    IN  IF starts = {} THEN << >>
        ELSE LET first == CHOOSE i \in starts : \A j \in starts : i <= j
                 last == CHOOSE j \in first..Len(s) :
                            /\ \A k \in first..j : s[k] # " "
                            /\ j = Len(s) \/ s[j + 1] = " "
             IN  SubSeq(s, first, last)

\* C20: price parsing never fails: for every price string _parse_price
\* returns the value of its leading numeric token, and 0 when the string is
\* empty or its leading token is not a number; the revenue summary of a
\* booking priced by the string and a booking priced "" raises nothing and
\* totals the value of the string, 10.0 for "10 EUR"
C20_PriceParsingNeverFails ==
    LET price_str == call_args.price_str
        leading == float(LeadingToken(price_str))
        expected == IF leading.exc = "none" THEN leading.value ELSE 0
    IN  /\ call_result.fn = "_parse_price" =>
            /\ call_result.exc = "none"
            /\ call_result.value = expected
        /\ call_result.fn = "execute_get_revenue_summary" =>
            /\ call_result.exc = "none"
            /\ call_result.value.total_revenue = round2(expected)
            /\ price_str = Str_10_EUR => call_result.value.total_revenue = 10 * 100

\* "10 EUR" and "" were summed to 10.0
C20_Witness ==
    /\ call_result.fn = "execute_get_revenue_summary"
    /\ call_args.price_str = Str_10_EUR
    /\ call_args.bookings[2].price = << >>
    /\ call_result.exc = "none"
    /\ call_result.value.total_revenue = 10 * 100
    /\ call_result.value.total_bookings = 2


RECURSIVE WithoutCanceled(_)
\* the bookings that are not flagged canceled, in order
WithoutCanceled(bookings) ==
    IF bookings = << >> THEN << >>
    ELSE (IF Head(bookings).is_canceled THEN << >> ELSE << Head(bookings) >>)
            \o WithoutCanceled(Tail(bookings))

\* the operational alerts without what is said of canceled bookings
ActiveFigures(view) ==
    [view EXCEPT !.total_canceled = 0,
                 !.cancellation_rate_pct = 0,
                 !.alerts = SelectSeq(view.alerts, LAMBDA alert : alert.kind # "cancelacion")]

\* C15: in every view of every builder (booking details without
\* include_canceled) the bookings flagged canceled contribute to no count,
\* sum or breakdown: the view is the one the builder gives for the bookings
\* without the canceled ones, except for total_canceled, which counts them,
\* and the cancellation rate with its alert
C15_CanceledCountOnlyAsCanceled ==
    LET fetched == call_args.bookings
        kept == WithoutCanceled(fetched)
        n_canceled == Cardinality({ i \in 1..Len(fetched) : fetched[i].is_canceled })
        view == call_result.value
    IN  /\ call_result.fn = "execute_get_occupancy_for_date" =>
            /\ view = execute_get_occupancy_for_date(kept, call_result.inputs)
            /\ view.total_bookings = Len(kept)
        /\ call_result.fn = "execute_get_occupancy_for_range" =>
            /\ [view EXCEPT !.total_canceled = 0] = execute_get_occupancy_for_range(kept)
            /\ view.total_canceled = n_canceled
            /\ view.total_bookings = Len(kept)
        /\ call_result.fn = "execute_get_revenue_summary" =>
            /\ view = execute_get_revenue_summary(kept)
            /\ view.total_bookings = Len(kept)
        /\ call_result.fn = "execute_get_member_insights" =>
            /\ view = execute_get_member_insights(call_result.inputs, kept)
            /\ view.total_bookings = Len(kept)
        /\ call_result.fn = "execute_get_operational_alerts" =>
            /\ ActiveFigures(view) = ActiveFigures(execute_get_operational_alerts(kept))
            /\ view.total_canceled = n_canceled
            /\ view.total_bookings = Len(kept)
        /\ (/\ call_result.fn = "execute_get_booking_details"
            /\ ~call_result.inputs.include_canceled) =>
            /\ view = execute_get_booking_details(kept, call_result.inputs.court_name,
                                                  call_result.inputs.player_name, FALSE)
            /\ \A i \in 1..Len(view.bookings) : ~view.bookings[i].is_canceled

\* two active bookings and a canceled one went through the operational alerts
C15_Witness ==
    /\ call_result.fn = "execute_get_operational_alerts"
    /\ Len(call_args.bookings) = 3
    /\ call_args.bookings[2].is_canceled
    /\ call_args.bookings[2].price = Str_10_EUR
    /\ call_result.value.total_bookings = 2
    /\ call_result.value.total_canceled = 1
    /\ call_result.value.cancellation_rate_pct = 333
    /\ call_result.value.unpaid_revenue_eur = 250


\* the revenue values of a breakdown of the revenue summary, summed
GroupRevenueSum(groups) == SumValues([k \in DOMAIN groups |-> groups[k].revenue])

\* C16 as stated: for every set of bookings, total_revenue of the revenue
\* summary equals the sum of the by_court revenues and the sum of the
\* by_payment_status revenues
C16_TotalEqualsGroupSums ==
    (call_result.fn = "execute_get_revenue_summary" /\ call_result.exc = "none") =>
        /\ call_result.value.total_revenue = GroupRevenueSum(call_result.value.by_court)
        /\ call_result.value.total_revenue = GroupRevenueSum(call_result.value.by_payment_status)

\* every price of an active booking is a whole number of cents
WholeCents(bookings) ==
    \A i \in 1..Len(bookings) :
        bookings[i].is_canceled \/ _parse_price(bookings[i].price).value % (PriceUnit \div 100) = 0

\* C16: when the price of every active booking is a whole number of cents,
\* total_revenue of the revenue summary equals the sum of the by_court
\* revenues and the sum of the by_payment_status revenues
C16_TotalEqualsGroupSumsOfWholeCents ==
    (/\ call_result.fn = "execute_get_revenue_summary"
     /\ call_result.exc = "none"
     /\ WholeCents(call_args.bookings)) =>
        /\ call_result.value.total_revenue = GroupRevenueSum(call_result.value.by_court)
        /\ call_result.value.total_revenue = GroupRevenueSum(call_result.value.by_payment_status)

\* 10 EUR paid on one court and 2.5 EUR unpaid on another were summed to 12.5
C16_Witness ==
    /\ call_result.fn = "execute_get_revenue_summary"
    /\ WholeCents(call_args.bookings)
    /\ call_result.value.total_revenue = 1250
    /\ DOMAIN call_result.value.by_court = {"Hirostar", "Pista 2"}
    /\ call_result.value.by_court["Hirostar"].revenue = 1000
    /\ call_result.value.by_court["Pista 2"].revenue = 250
    /\ DOMAIN call_result.value.by_payment_status = {"PAID", "UNPAID"}
    /\ call_result.value.by_payment_status["UNPAID"].revenue = 250

\* the available slots of an availability response, every entry counted
SlotsOffered(availability) ==
    SumValues([i \in 1..Len(availability) |-> Len(availability[i].slots)])

\* C17 as stated: occupancy_percentage of occupancy-for-date is the active
\* bookings over the active bookings plus the available slots, as a
\* percentage rounded to 1 decimal; it lies in [0, 100] and is 0 when both
\* counts are 0; 3 active bookings on one court and 2 available slots give
\* 60.0 and a bookings_count of 3
C17_OccupancyPercentage ==
    call_result.fn = "execute_get_occupancy_for_date" =>
        LET booked == Len(WithoutCanceled(call_args.bookings))
            available == SlotsOffered(call_result.inputs)
            view == call_result.value
        IN  /\ view.occupancy_percentage =
                    IF booked + available > 0
                    THEN RoundHalfEven(booked * 100 * 10, booked + available)
                    ELSE 0
            /\ view.occupancy_percentage \in 0..(100 * 10)
            /\ (/\ booked = 3
                /\ available = 2
                /\ DOMAIN view.courts = {"Hirostar"}) =>
                    /\ view.occupancy_percentage = 60 * 10
                    /\ view.courts["Hirostar"].bookings_count = 3


\* C21: for every list of bookings, cancellation_rate_pct of the operational
\* alerts is canceled / total as a percentage rounded to 1 decimal (the
\* nearest tenth of a percent), 0 for the empty list, and within [0, 100]
C21_CancellationRate ==
    call_result.fn = "execute_get_operational_alerts" =>
        LET fetched == call_args.bookings
            total == Len(fetched)
            n_canceled == Cardinality({ i \in 1..total : fetched[i].is_canceled })
            rate == call_result.value.cancellation_rate_pct
            distance == rate * total - n_canceled * 100 * 10
        IN  /\ total = 0 => rate = 0
            /\ total > 0 => (2 * distance <= total /\ -2 * distance <= total)
            /\ rate \in 0..(100 * 10)

\* two of three bookings were canceled: 66.7
C21_Witness ==
    /\ call_result.fn = "execute_get_operational_alerts"
    /\ Len(call_args.bookings) = 3
    /\ Cardinality({ i \in 1..3 : call_args.bookings[i].is_canceled }) = 2
    /\ call_result.value.cancellation_rate_pct = 667
    /\ call_result.value.total_canceled = 2


\* two characters are the same letter, whatever their case
SameLetter(a, b) ==
    \/ a = b
    \/ a \in DOMAIN LowerCase /\ LowerCase[a] = b
    \/ b \in DOMAIN LowerCase /\ LowerCase[b] = a

\* text contains pattern as a substring, case ignored
ContainsIgnoringCase(text, pattern) ==
    \E offset \in 0..(Len(text) - Len(pattern)) :
        \A k \in 1..Len(pattern) : SameLetter(text[offset + k], pattern[k])

\* C22: execute_get_booking_details with court_name c returns exactly the
\* bookings not excluded as canceled whose court name contains c as a
\* case-insensitive substring, with player_name p exactly those with at
\* least one participant whose name contains p case-insensitively, and with
\* both exactly those satisfying both
C22_FiltersSelectExactly ==
    call_result.fn = "execute_get_booking_details" =>
        LET given == call_result.inputs
            Selected(b) ==
                /\ given.include_canceled \/ ~b.is_canceled
                /\ given.court_name \in {None, ""}
                    \/ ContainsIgnoringCase(Chars[b.resource_name], Chars[given.court_name])
                /\ given.player_name \in {None, ""}
                    \/ \E i \in 1..Len(b.participants) :
                            ContainsIgnoringCase(Chars[b.participants[i].name],
                                                 Chars[given.player_name])
            expected == execute_get_booking_details(SelectSeq(call_args.bookings, Selected),
                                                    None, None, TRUE)
        IN  /\ call_result.value.bookings = expected.bookings
            /\ call_result.value.total_bookings = expected.total_bookings


\* the active bookings the alerts count under hour h of the day
CountedAt(h) ==
    Cardinality({ i \in 1..Len(call_args.bookings) :
                    /\ ~call_args.bookings[i].is_canceled
                    /\ _utc_to_local_hour(call_args.bookings[i].booking_start_date, _club_tz) = h })

\* C23: when the operational alerts report a quiet hour, the alert of the
\* underutilised hour names the hour with the least bookings among the
\* hours that have bookings
C23_AlertNamesQuietestHour ==
    call_result.fn = "execute_get_operational_alerts" =>
        \A i \in 1..Len(call_result.value.alerts) :
            call_result.value.alerts[i].kind = "subutilizado" =>
                \A h \in 0..23 :
                    CountedAt(h) > 0 => CountedAt(call_result.value.alerts[i].value) <= CountedAt(h)

\* the weekdays, Monday first
Weekdays == << 0, 1, 2, 3, 4, 5, 6 >>

\* C25: day_of_week_distribution of the operational alerts has the 7
\* weekday buckets, Monday first, whatever the bookings: a weekday without
\* bookings is listed with 0, and so are all 7 for no bookings
C25_SevenWeekdayBuckets ==
    call_result.fn = "execute_get_operational_alerts" =>
        LET buckets == call_result.value.day_of_week_distribution
        IN  /\ Len(buckets) = Len(Weekdays)
            /\ \A i \in 1..Len(buckets) : buckets[i].day = Weekdays[i]

\* the active bookings whose start is a timestamp at hour h of the local day
StartedAt(h) ==
    Cardinality({ i \in 1..Len(call_args.bookings) :
                    /\ ~call_args.bookings[i].is_canceled
                    /\ call_args.bookings[i].booking_start_date.kind = "datetime"
                    /\ _utc_to_local_hour(call_args.bookings[i].booking_start_date, _club_tz) = h })

\* C27: a booking whose start is empty or malformed makes no builder raise
\* and is counted under no hour of the day: every hour listed in peak_hours
\* and quiet_hours counts the bookings that started at that hour
C27_UnknownTimeUnderNoHour ==
    call_result.fn = "execute_get_operational_alerts" =>
        /\ call_result.exc = "none"
        /\ \A i \in 1..Len(call_result.value.peak_hours) :
                call_result.value.peak_hours[i].bookings
                    = StartedAt(call_result.value.peak_hours[i].hour)
        /\ \A i \in 1..Len(call_result.value.quiet_hours) :
                call_result.value.quiet_hours[i].bookings
                    = StartedAt(call_result.value.quiet_hours[i].hour)


\* the operational alerts raised the alert of a high cancellation rate
CancellationAlert ==
    \E i \in 1..Len(call_result.value.alerts) : call_result.value.alerts[i].kind = "cancelacion"

\* the bookings fetched that are flagged canceled
CanceledFetched ==
    Cardinality({ i \in 1..Len(call_args.bookings) : call_args.bookings[i].is_canceled })

\* C24 as stated: the operational alerts raise the high-cancellation alert
\* exactly when canceled / total exceeds 15%, for every pair of counts
C24_AlertWhenRateExceeds ==
    call_result.fn = "execute_get_operational_alerts" =>
        (CancellationAlert
            <=> CanceledFetched * 100 > CancellationThreshold * Len(call_args.bookings))

\* C24: the operational alerts raise the high-cancellation alert exactly
\* when the cancellation rate rounded to 1 decimal exceeds 15.0, which is
\* when canceled / total exceeds 15.05%
C24_AlertWhenRoundedRateExceeds ==
    call_result.fn = "execute_get_operational_alerts" =>
        /\ CancellationAlert <=> call_result.value.cancellation_rate_pct > CancellationThreshold * 10
        /\ CancellationAlert
            <=> CanceledFetched * 100 * 20 > (CancellationThreshold * 20 + 1) * Len(call_args.bookings)

\* 17 of 113 bookings were canceled, 15.04%: the rate is 15.0 and no alert
C24_Witness ==
    /\ call_result.fn = "execute_get_operational_alerts"
    /\ Len(call_args.bookings) = 113
    /\ CanceledFetched = 17
    /\ call_result.value.cancellation_rate_pct = 150
    /\ ~CancellationAlert


\* the resources of an availability response that offer at least one slot
CourtsOffering(availability) ==
    { availability[i].resource_id : i \in { j \in 1..Len(availability) : Len(availability[j].slots) >= 1 } }

\* C26: for every availability response, courts_with_availability of the
\* available-slots view is the number of courts with at least one available
\* slot, and total_available_slots is the number of slots across the courts
C26_CourtsWithAtLeastOneSlot ==
    call_result.fn = "execute_get_available_slots" =>
        /\ call_result.value.courts_with_availability
                = Cardinality(CourtsOffering(call_result.inputs))
        /\ call_result.value.total_available_slots = SlotsOffered(call_result.inputs)

\* C30: for one availability response, total_available_slots of the
\* available-slots view is the sum of the lengths of its slots_by_court
\* lists and is the total_available_slots of occupancy-for-date, also when
\* the response lists a resource_id more than once
C30_SlotTotalsAgree ==
    call_result.fn = "execute_get_available_slots" =>
        LET by_court == call_result.value.slots_by_court
            occupancy == execute_get_occupancy_for_date(call_args.bookings, call_result.inputs)
        IN  /\ call_result.value.total_available_slots
                    = SumValues([rid \in DOMAIN by_court |-> Len(by_court[rid])])
            /\ call_result.value.total_available_slots = occupancy.total_available_slots


\* C29: a chat call only appends to the history: every step of a chat call,
\* the one that raises included, leaves the history it found as a prefix of
\* the history it leaves, so the history from before the call stays a prefix
\* throughout the call
C29_ChatOnlyAppends ==
    [][ (pc # "idle" \/ pc' # "idle") =>
            (/\ Len(messages') >= Len(messages)
             /\ SubSeq(messages', 1, Len(messages)) = messages) ]_vars

\* a chat call raised after it had appended the user message and the reply
C29_Witness ==
    /\ ret.kind = "raised"
    /\ pc = "idle"
    /\ lastOp # "reset"
    /\ Len(messages) >= turnStart + 2
    /\ messages[Len(messages)].role = "assistant"


\* C28: after any sequence of PlaytomicAPI constructions, PlaytomicAgent
\* constructions and set_club_timezone calls, the timezone the builders
\* bucket with (_club_tz) is the timezone of the gateway of every agent
\* (api.club_tz), so a booking fetched for local day d that starts in the UTC
\* range queried is bucketed under local date d
C28_BucketTimezoneIsGatewayTimezone ==
    /\ \A agent \in 1..Len(agent_api) : module_club_tz = api_club_tz[agent_api[agent]]
    /\ call_result.fn = "builder" => call_result.value = DateStr(call_result.local_day)

====
